---- MODULE Spec2Model ----
(***************************************************************************)
(* A model of the runst notification daemon: the notification Manager      *)
(* (unread queue with ring-buffer eviction), the window position           *)
(* calculation of x11.rs, the glob matching, app-color lookup and style    *)
(* rules of config.rs, the history of history.rs, and the draw and the     *)
(* event loop of x11.rs.                                                   *)
(***************************************************************************)
EXTENDS Integers, Sequences, FiniteSets, TLC

(***************************************************************************)
(* Bounds of the model.                                                    *)
(***************************************************************************)
\* Number of notifications the ingestion context enqueues in one run.
MaxEnqueue == 4
\* Largest configured display limit (0 = unlimited).
MaxLimit == 2
\* Largest `max` handed to the unread-buffer query.
MaxBuf == 2
\* Largest index handed to dismiss.
MaxIndex == 3
\* Longest glob pattern and longest matched value, in characters.
MaxPatternLen == 5
MaxValueLen == 4
\* Largest number of entries of the app-color map.
MaxAppColors == 3
\* Largest number of style rules.
MaxRules == 2
\* History: largest limit, most entries on disk at start, most adds.
MaxHistoryLimit == 3
MaxLoaded == 2
MaxAdds == 5
\* History: largest count given to recent, longest query given to search.
MaxCount == 4
MaxQueryLen == 2
\* Markup escaping: longest escaped text.
MaxTextLen == 3
\* Draw: most notifications displayed.
MaxShown == 3
\* Event loop: notifications ingested, input events handled, highest row
\* of a press.
MaxIngest == 2
MaxEvents == 3
MaxY == 5
\* Event loop with a queue: most events in the connection's queue, most
\* presses among the events that arrive.
MaxPending == 2
MaxPresses == 1

VARIABLES
    notifications,  \* Manager: the ordered sequence of [id, is_read]
    display_limit,  \* GlobalConfig::display_limit
    next_id,        \* the id the ingestion context assigns next
    op,             \* the Manager operation called last
    arg,            \* its argument (0 when it takes none)
    ret,            \* its result: [err, val]
    prev,           \* the Manager's sequence before that call
    only_enqueued,  \* no mutation other than enqueue has been called
    lu_seen,        \* id returned by last_unread, no enqueue since (0: none)
    lu_marked,      \* mark_last_as_read was called after lu_seen was returned
    forbidden,      \* at a last_unread call: lu_seen if lu_marked, else 0
    input,          \* the arguments of a pure function under check
    output,         \* what the function returned for them
    entries,        \* History::entries, oldest first
    history_limit,  \* History::limit
    disk,           \* the entries in the history file
    stored,         \* every entry given to the history so far, in order
    add_ret,        \* the result of the last History::add ("none": no call)
    config,         \* the Config the window is drawn with
    font_line_height, \* the height of a line of text in the window's font
    entry_bounds,   \* X11Window::entry_bounds
    current_width,  \* X11Window::current_width
    now,            \* the wall clock, in seconds since the epoch
    shown,          \* the ids of the notifications handed to draw
    unread_count,   \* the unread count handed to draw
    frame,          \* what the last call of draw did
    last_frame,     \* under SpecDraw: what the call of draw before it did
    drawn,          \* the ids of the notifications painted in the window
    pc,             \* handle_events: the statement the loop is at
    mode,           \* "Blocking" or "Polling": the branch of this iteration
    event,          \* the event being dispatched, if any
    unread,         \* ButtonPress arm: the ids of the buffer read
    elapsed,        \* last_redraw.elapsed(), in milliseconds
    events,         \* the number of events taken from the connection
    presses,        \* the number of ButtonPress events among them
    callbacks,      \* the number of calls of on_press
    callback,       \* the arguments of the call of on_press just made
    at_press,       \* the Manager's sequence when `unread` was read
    taken,          \* the Manager's sequences read for the next draw since
                    \* the last event was received
    pending         \* the events in the connection's queue, oldest first

mgr_vars == <<notifications, display_limit, next_id, op, arg, ret, prev,
              only_enqueued, lu_seen, lu_marked, forbidden>>

\* The variables of the checks of pure functions.
pure_vars == <<input, output>>

\* The variables of the persistent history.
hist_vars == <<entries, history_limit, disk, stored, add_ret>>

\* The variables outside the Manager and the pure functions.
\* The variables of the window and of the arguments of draw.
win_vars == <<config, font_line_height, entry_bounds, current_width, now,
              shown, unread_count, frame, last_frame, drawn>>

\* The variables of the event loop.
loop_vars == <<pc, mode, event, unread, elapsed, events, presses, callbacks,
               callback, at_press, taken, pending>>

rest_vars == <<hist_vars, win_vars, loop_vars>>

vars == <<mgr_vars, pure_vars, rest_vars>>

\* No history has been opened.
HistoryIdle ==
    /\ entries = <<>>
    /\ history_limit = 0
    /\ disk = <<>>
    /\ stored = <<>>
    /\ add_ret = "none"

\* draw has not been called.
NoDraw ==
    [result |-> "none", painted |-> FALSE, entries |-> <<>>,
     total_height |-> 0, geometry |-> [some |-> FALSE, v |-> <<>>],
     spawned |-> <<>>, now |-> 0, entry_bounds |-> <<>>, current_width |-> 0,
     steps |-> <<>>, fill |-> "none"]

\* No window has been created.
WindowIdle ==
    /\ config = [global |-> "none"]
    /\ font_line_height = 1
    /\ entry_bounds = <<>>
    /\ current_width = 0
    /\ now = 0
    /\ shown = <<>>
    /\ unread_count = 0
    /\ frame = NoDraw
    /\ last_frame = NoDraw
    /\ drawn = <<>>

\* on_press has not just been called.
NoCallback == [called |-> FALSE]

\* The loop holds no argument of a draw to come.
NoReads ==
    [buffer |-> [some |-> FALSE, v |-> <<>>],
     count |-> [some |-> FALSE, v |-> <<>>]]

\* handle_events is not running.
LoopIdle ==
    /\ pc = "none"
    /\ mode = "none"
    /\ event = [some |-> FALSE, v |-> <<>>]
    /\ unread = <<>>
    /\ elapsed = 0
    /\ events = 0
    /\ presses = 0
    /\ callbacks = 0
    /\ callback = NoCallback
    /\ at_press = <<>>
    /\ taken = NoReads
    /\ pending = <<>>

RestIdle == HistoryIdle /\ WindowIdle /\ LoopIdle

\* Neither arguments nor a result: no pure function is under check.
NoCall == [fn |-> "none"]

(***************************************************************************)
(* Sequence helpers.                                                       *)
(***************************************************************************)
Min(a, b) == IF a < b THEN a ELSE b

\* s without its element at position i.
RemoveAt(s, i) == [k \in 1..(Len(s) - 1) |-> IF k < i THEN s[k] ELSE s[k + 1]]

\* The last k elements of s, in order.
LastK(s, k) == SubSeq(s, Len(s) - k + 1, Len(s))

\* The ids of a sequence of notifications, in order.
Ids(s) == [k \in 1..Len(s) |-> s[k].id]

(***************************************************************************)
(* Manager.                                                                *)
(***************************************************************************)
NoId == 0

Ok(v) == [err |-> "none", val |-> v]
EmptyState == [err |-> "EmptyState", val |-> <<>>]

\* Positions of the unread entries, oldest first.
UnreadPositions(s) == {k \in 1..Len(s) : ~s[k].is_read}

\* The unread entries, oldest first.
Unread(s) == SelectSeq(s, LAMBDA n : ~n.is_read)

\* Position in s of the i-th (1-based) unread entry.
UnreadPosition(s, i) ==
    CHOOSE k \in UnreadPositions(s) :
        Cardinality({j \in UnreadPositions(s) : j <= k}) = i

get_unread_count(s) == Len(Unread(s))

\* Mutation of get_unread_buffer: the window is taken from the oldest end.
get_unread_buffer_oldest(s, max) ==
    IF max = 0 THEN Unread(s)
    ELSE SubSeq(Unread(s), 1, Min(max, Len(Unread(s))))

\* Up to max most recent unread entries, oldest of the window first;
\* all unread entries when max = 0.
get_unread_buffer(s, max) ==
    IF max = 0 THEN Unread(s)
    ELSE LastK(Unread(s), Min(max, Len(Unread(s))))

\* Mutation of last_unread: indexes the last entry without the empty check,
\* reporting the oldest unread entry and never EmptyState.
last_unread_first(s) ==
    IF Len(Unread(s)) = 0 THEN Ok(<<NoId>>)
    ELSE Ok(<<Unread(s)[1].id>>)

\* The most recently enqueued unread entry, or EmptyState.
last_unread(s) ==
    IF Len(Unread(s)) = 0 THEN EmptyState
    ELSE Ok(<<Unread(s)[Len(Unread(s))].id>>)

\* Mutation of enqueue: the limit test is off by one.
enqueue_off_by_one(s, n, limit) ==
    LET appended == Append(s, n)
    IN  IF limit > 0 /\ get_unread_count(appended) > limit + 1
        THEN RemoveAt(appended, UnreadPosition(appended, 1))
        ELSE appended

\* Appends as unread; over the display limit the oldest unread entry goes.
enqueue(s, n, limit) ==
    LET appended == Append(s, n)
    IN  IF limit > 0 /\ get_unread_count(appended) > limit
        THEN RemoveAt(appended, UnreadPosition(appended, 1))
        ELSE appended

\* Mutation of mark_last_as_read: the oldest unread entry becomes read.
mark_first_as_read(s) ==
    IF Len(Unread(s)) = 0 THEN s
    ELSE [s EXCEPT ![UnreadPosition(s, 1)].is_read = TRUE]

\* The most recent unread entry becomes read; nothing changes if none is.
mark_last_as_read(s) ==
    IF Len(Unread(s)) = 0 THEN s
    ELSE [s EXCEPT ![UnreadPosition(s, Len(Unread(s)))].is_read = TRUE]

\* Mutation of dismiss: the index is taken in the whole sequence, read
\* entries included.
dismiss_raw_index(s, i) ==
    IF i < 0 \/ i >= Len(s) THEN s
    ELSE RemoveAt(s, i + 1)

\* Mutation of dismiss: the index counts from the newest unread entry.
dismiss_from_newest(s, i) ==
    IF i < 0 \/ i >= Len(Unread(s)) THEN s
    ELSE RemoveAt(s, UnreadPosition(s, Len(Unread(s)) - i))

\* Removes the entry at 0-based index i of the current unread buffer;
\* nothing changes when i refers to no present unread entry.
dismiss(s, i) ==
    IF i < 0 \/ i >= Len(Unread(s)) THEN s
    ELSE RemoveAt(s, UnreadPosition(s, i + 1))

(***************************************************************************)
(* The Manager's operations as actions.                                    *)
(***************************************************************************)
\* The Manager after construction, under a display limit among `limits`.
ManagerInit(limits) ==
    /\ notifications = <<>>
    /\ display_limit \in limits
    /\ next_id = 1
    /\ op = "init"
    /\ arg = 0
    /\ ret = Ok(<<>>)
    /\ prev = <<>>
    /\ only_enqueued = TRUE
    /\ lu_seen = NoId
    /\ lu_marked = FALSE
    /\ forbidden = NoId

Init ==
    /\ ManagerInit(0..MaxLimit)
    /\ RestIdle
    /\ input = NoCall
    /\ output = NoCall

Enqueue ==
    /\ UNCHANGED <<pure_vars, rest_vars>>
    /\ next_id <= MaxEnqueue
    /\ notifications' =
           enqueue(notifications, [id |-> next_id, is_read |-> FALSE],
                   display_limit)
    /\ next_id' = next_id + 1
    /\ op' = "enqueue"
    /\ arg' = next_id
    /\ ret' = Ok(<<>>)
    /\ prev' = notifications
    /\ lu_seen' = NoId
    /\ lu_marked' = FALSE
    /\ UNCHANGED <<display_limit, only_enqueued, forbidden>>

UnreadCount ==
    /\ UNCHANGED <<pure_vars, rest_vars>>
    /\ op' = "unread_count"
    /\ arg' = 0
    /\ ret' = Ok(<<get_unread_count(notifications)>>)
    /\ prev' = notifications
    /\ UNCHANGED <<notifications, display_limit, next_id, only_enqueued,
                   lu_seen, lu_marked, forbidden>>

UnreadBuffer ==
    \E max \in 0..MaxBuf :
        /\ UNCHANGED <<pure_vars, rest_vars>>
        /\ op' = "unread_buffer"
        /\ arg' = max
        /\ ret' = Ok(Ids(get_unread_buffer(notifications, max)))
        /\ prev' = notifications
        /\ UNCHANGED <<notifications, display_limit, next_id, only_enqueued,
                       lu_seen, lu_marked, forbidden>>

LastUnread ==
    /\ UNCHANGED <<pure_vars, rest_vars>>
    /\ op' = "last_unread"
    /\ arg' = 0
    /\ ret' = last_unread(notifications)
    /\ prev' = notifications
    /\ forbidden' = IF lu_marked THEN lu_seen ELSE NoId
    /\ lu_seen' = IF last_unread(notifications).err = "none"
                  THEN last_unread(notifications).val[1] ELSE NoId
    /\ lu_marked' = FALSE
    /\ UNCHANGED <<notifications, display_limit, next_id, only_enqueued>>

MarkLastAsRead ==
    /\ UNCHANGED <<pure_vars, rest_vars>>
    /\ notifications' = mark_last_as_read(notifications)
    /\ op' = "mark_last_as_read"
    /\ arg' = 0
    /\ ret' = Ok(<<>>)
    /\ prev' = notifications
    /\ only_enqueued' = FALSE
    /\ lu_marked' = (lu_seen # NoId)
    /\ UNCHANGED <<display_limit, next_id, lu_seen, forbidden>>

Dismiss ==
    \E i \in 0..MaxIndex :
        /\ UNCHANGED <<pure_vars, rest_vars>>
        /\ notifications' = dismiss(notifications, i)
        /\ op' = "dismiss"
        /\ arg' = i
        /\ ret' = Ok(<<>>)
        /\ prev' = notifications
        /\ only_enqueued' = FALSE
        /\ UNCHANGED <<display_limit, next_id, lu_seen, lu_marked, forbidden>>

Next ==
    \/ Enqueue
    \/ UnreadCount
    \/ UnreadBuffer
    \/ LastUnread
    \/ MarkLastAsRead
    \/ Dismiss

Spec == Init /\ [][Next]_vars

(***************************************************************************)
(* Claims about the Manager.                                               *)
(***************************************************************************)
\* The ids of the unread entries of s.
UnreadIds(s) == {s[k].id : k \in UnreadPositions(s)}

\* The ids of the read entries of s.
ReadIds(s) == {s[k].id : k \in {j \in 1..Len(s) : s[j].is_read}}

\* The number of notifications enqueued so far.
Enqueued == next_id - 1

\* C1: with a display limit L > 0 the unread count never exceeds L, and
\* after enqueue calls alone the unread entries are exactly the
\* min(L, number enqueued) most recently enqueued ones, oldest first.
C1_DisplayLimit ==
    display_limit > 0 =>
        /\ get_unread_count(notifications) <= display_limit
        /\ only_enqueued =>
               Ids(Unread(notifications)) =
                   [k \in 1..Min(display_limit, Enqueued) |->
                       Enqueued - Min(display_limit, Enqueued) + k]

\* C1 witness: limit 2, three enqueued, the first evicted.
C1_Witness ==
    /\ display_limit = 2
    /\ only_enqueued
    /\ Enqueued = 3
    /\ Ids(Unread(notifications)) = <<2, 3>>

\* C2: once last_unread returned n and mark_last_as_read was called, a
\* following last_unread with no enqueue in between does not return n: it
\* returns an older unread entry or fails with EmptyState.
C2_NoRepeatAfterMark ==
    (op = "last_unread" /\ forbidden # NoId) =>
        \/ ret = EmptyState
        \/ ret.err = "none" /\ ret.val[1] < forbidden

\* C2 witness: such a last_unread call that returned an older entry.
C2_Witness ==
    /\ op = "last_unread"
    /\ forbidden # NoId
    /\ ret.err = "none"

\* C3: last_unread fails with EmptyState exactly when nothing is unread and
\* otherwise returns the most recently enqueued unread entry; every other
\* operation succeeds.
C3_OnlyLastUnreadFails ==
    /\ op = "last_unread" =>
           /\ (ret = EmptyState) <=> (get_unread_count(prev) = 0)
           /\ ret # EmptyState =>
                  /\ ret.err = "none"
                  /\ Len(ret.val) = 1
                  /\ ret.val[1] \in UnreadIds(prev)
                  /\ \A u \in UnreadIds(prev) : u <= ret.val[1]
    /\ op # "last_unread" => ret.err = "none"

\* C3 witness: last_unread fails although the Manager holds (read) entries.
C3_Witness ==
    /\ op = "last_unread"
    /\ ret = EmptyState
    /\ Len(prev) > 0

C5_DismissRemovesIndexed ==
    (op = "dismiss" /\ arg < get_unread_count(prev)) =>
        /\ Ids(Unread(notifications)) =
               Ids(RemoveAt(get_unread_buffer(prev, 0), arg + 1))
        /\ ReadIds(notifications) = ReadIds(prev)
        /\ Len(notifications) = Len(prev) - 1

\* C5 witness: limit 2, three enqueued, the 2nd dismissed by its index 0,
\* only the 3rd is left unread.
C5_Witness ==
    /\ display_limit = 2
    /\ Enqueued = 3
    /\ op = "dismiss"
    /\ arg = 0
    /\ Ids(Unread(prev)) = <<2, 3>>
    /\ Ids(Unread(notifications)) = <<3>>

\* C6: unread_buffer(max) returns, oldest first, the min(max, unread count)
\* most recently enqueued unread entries when max > 0 and all unread
\* entries when max = 0, and never a read or removed entry.
C6_UnreadBufferWindow ==
    op = "unread_buffer" =>
        LET U == UnreadIds(prev)
            n == IF arg = 0 THEN Cardinality(U) ELSE Min(arg, Cardinality(U))
            R == {ret.val[k] : k \in 1..Len(ret.val)}
        IN  /\ ret.err = "none"
            /\ Len(ret.val) = n
            /\ \A j, k \in 1..Len(ret.val) : j < k => ret.val[j] < ret.val[k]
            /\ R \subseteq U
            /\ \A u \in U \ R : \A r \in R : u < r

\* C6 witness: a window smaller than the unread set, with read entries
\* present in the Manager.
C6_Witness ==
    /\ op = "unread_buffer"
    /\ arg > 0
    /\ arg < get_unread_count(prev)
    /\ ReadIds(prev) # {}

(***************************************************************************)
(* Window position: calculate_position_from_origin (x11.rs).               *)
(*                                                                         *)
(* A 32-bit word is a pair of 16-bit limbs [hi, lo], of value              *)
(* hi * 2^16 + lo as u32 and of the same bits in two's complement as i32.  *)
(***************************************************************************)
Limb == 2^16

U32(h, l) == [hi |-> h, lo |-> l]

\* `n as i32` for a u16 n.
FromU16(n) == U32(0, n)

\* `n as i32` for a u32 n: the bits are kept.
AsI32(n) == n

\* The sign of an i32.
IsNegative(a) == a.hi >= 2^15

\* a - b on i32, wrapping: the 32-bit result of the subtraction.
WrappingSub(a, b) ==
    LET lo == a.lo - b.lo
        hi == a.hi - b.hi - (IF lo < 0 THEN 1 ELSE 0)
    IN  U32(hi % Limb, lo % Limb)

\* Whether a - b leaves the range of i32.
SubOverflows(a, b) ==
    /\ IsNegative(a) # IsNegative(b)
    /\ IsNegative(WrappingSub(a, b)) # IsNegative(a)

\* `x.max(0)` on i32.
Max0(a) == IF IsNegative(a) THEN U32(0, 0) ELSE a

\* `x as i16` for an i32 x: the low 16 bits, in two's complement.
AsI16(a) == IF a.lo >= 2^15 THEN a.lo - Limb ELSE a.lo

Origins == {"TopLeft", "TopRight", "BottomLeft", "BottomRight"}

\* `screen - size - off` on i32, with whether a step of it overflows.
AnchoredFromFarEdge(screen, size, off) ==
    [v |-> WrappingSub(WrappingSub(screen, size), off),
     overflow |-> \/ SubOverflows(screen, size)
                  \/ SubOverflows(WrappingSub(screen, size), off)]

AnchoredFromNearEdge(off) == [v |-> off, overflow |-> FALSE]

\* The function: overflow_checks is the build's setting (on in a debug
\* build, where an overflowing subtraction panics; off in a release build,
\* where it wraps).
calculate_position_from_origin(origin, offset_x, offset_y, width, height, screen_width, screen_height, overflow_checks) ==
    LET screen_w == FromU16(screen_width)
        screen_h == FromU16(screen_height)
        off_x == AsI32(offset_x)
        off_y == AsI32(offset_y)
        w == AsI32(width)
        h == AsI32(height)
        x == IF origin \in {"TopLeft", "BottomLeft"}
             THEN AnchoredFromNearEdge(off_x)
             ELSE AnchoredFromFarEdge(screen_w, w, off_x)
        y == IF origin \in {"TopLeft", "TopRight"}
             THEN AnchoredFromNearEdge(off_y)
             ELSE AnchoredFromFarEdge(screen_h, h, off_y)
    IN  IF overflow_checks /\ (x.overflow \/ y.overflow)
        THEN [fn |-> "calculate_position_from_origin", panic |-> TRUE,
              x |-> 0, y |-> 0]
        ELSE [fn |-> "calculate_position_from_origin", panic |-> FALSE,
              x |-> AsI16(Max0(x.v)), y |-> AsI16(Max0(y.v))]

\* The samples of offsets, content sizes and screen sizes.
OffsetSamples ==
    {U32(0, 0), U32(0, 10), U32(0, 20), U32(0, 2^15), U32(2^15, 0),
     U32(Limb - 1, Limb - 1)}

SizeSamples ==
    {U32(0, 1), U32(0, 100), U32(0, 200), U32(0, 2000), U32(2^15, 0)}

ScreenSamples == {1080, 1920, Limb - 1}

PositionCalls ==
    [fn : {"calculate_position_from_origin"},
     origin : Origins,
     offset_x : OffsetSamples, offset_y : OffsetSamples,
     width : SizeSamples, height : SizeSamples,
     screen_width : ScreenSamples, screen_height : ScreenSamples,
     overflow_checks : BOOLEAN]

InitPos ==
    /\ ManagerInit({0})
    /\ RestIdle
    /\ input \in PositionCalls
    /\ output = NoCall

CalculatePosition ==
    /\ output = NoCall
    /\ output' = calculate_position_from_origin(
                     input.origin, input.offset_x, input.offset_y,
                     input.width, input.height,
                     input.screen_width, input.screen_height,
                     input.overflow_checks)
    /\ UNCHANGED <<mgr_vars, input, rest_vars>>

NextPos == CalculatePosition

SpecPos == InitPos /\ [][NextPos]_vars

(***************************************************************************)
(* Claims about the window position.                                       *)
(***************************************************************************)
\* An integer of any size as 2^16 * q + r with 0 <= r < 2^16.
Big(q0, r0) == [q |-> q0 + (r0 \div Limb), r |-> r0 % Limb]

\* S - W - O over the integers, for a u16 S and u32 W and O.
FarEdgeValue(screen, size, off) ==
    Big(0 - size.hi - off.hi, screen - size.lo - off.lo)

NearEdgeValue(off) == Big(off.hi, off.lo)

\* The position section 4.4 of the specification gives, per axis.
SpecX(c) ==
    IF c.origin \in {"TopLeft", "BottomLeft"}
    THEN NearEdgeValue(c.offset_x)
    ELSE FarEdgeValue(c.screen_width, c.width, c.offset_x)

SpecY(c) ==
    IF c.origin \in {"TopLeft", "TopRight"}
    THEN NearEdgeValue(c.offset_y)
    ELSE FarEdgeValue(c.screen_height, c.height, c.offset_y)

\* A coordinate the function returned equals the integer b.
Equals(coord, b) == b.q = 0 /\ coord = b.r

PositionReturned == output # NoCall

\* C7: whenever the anchored position is non-negative in both axes, the
\* function returns it: (offset_x, offset_y) for top-left,
\* (screen_w - width - offset_x, offset_y) for top-right, and so on.
C7_PositionFormula ==
    (PositionReturned /\ SpecX(input).q >= 0 /\ SpecY(input).q >= 0) =>
        /\ ~output.panic
        /\ Equals(output.x, SpecX(input))
        /\ Equals(output.y, SpecY(input))

\* C8: both coordinates the function returns are >= 0.
C8_NeverNegative ==
    (PositionReturned /\ ~output.panic) => (output.x >= 0 /\ output.y >= 0)

(***************************************************************************)
(* Glob matching: glob_match (config.rs).  A string is a sequence of       *)
(* one-character strings.                                                  *)
(***************************************************************************)
Star == "*"

\* The characters of the checked patterns and values: a letter, and a
\* second letter in both cases.
Letters == {"a", "b", "B"}

\* `char::to_lowercase` on these characters.
LowerChar(c) == IF c = "B" THEN "b" ELSE c

\* `str::to_lowercase`.
to_lowercase(s) == [k \in 1..Len(s) |-> LowerChar(s[k])]

\* `str::contains(char)`.
ContainsChar(s, c) == \E k \in 1..Len(s) : s[k] = c

\* `str::split('*')`: the pieces between the stars, empty ones included.
RECURSIVE split(_)
split(s) ==
    IF ~ContainsChar(s, Star) THEN <<s>>
    ELSE LET i == CHOOSE k \in 1..Len(s) :
                      /\ s[k] = Star
                      /\ \A j \in 1..(k - 1) : s[j] # Star
         IN  <<SubSeq(s, 1, i - 1)>> \o split(SubSeq(s, i + 1, Len(s)))

\* `str::starts_with`, `str::ends_with`.
starts_with(v, prefix) ==
    Len(prefix) <= Len(v) /\ SubSeq(v, 1, Len(prefix)) = prefix

ends_with(v, suffix) ==
    /\ Len(suffix) <= Len(v)
    /\ SubSeq(v, Len(v) - Len(suffix) + 1, Len(v)) = suffix

\* part occurs in v at 0-based offset i.
OccursAt(v, part, i) ==
    i + Len(part) <= Len(v) /\ SubSeq(v, i + 1, i + Len(part)) = part

Offsets(v, part) == {i \in 0..Len(v) : OccursAt(v, part, i)}

\* `str::find`: the offset of the first occurrence, -1 for None.
find(v, part) ==
    IF Offsets(v, part) = {} THEN -1
    ELSE CHOOSE i \in Offsets(v, part) : \A j \in Offsets(v, part) : i <= j

\* `str::contains(&str)`.
contains(v, part) == Offsets(v, part) # {}

\* The loop of the last match arm: each non-empty part is searched in what
\* remains of the value after the previous match.
RECURSIVE MatchParts(_, _)
MatchParts(parts, remaining) ==
    IF parts = <<>> THEN TRUE
    ELSE IF Head(parts) = <<>> THEN MatchParts(Tail(parts), remaining)
    ELSE IF find(remaining, Head(parts)) = -1 THEN FALSE
    ELSE MatchParts(Tail(parts),
                    SubSeq(remaining,
                           find(remaining, Head(parts)) + Len(Head(parts)) + 1,
                           Len(remaining)))

\* Mutation of glob_match: the value is compared as given, not lower-cased.
glob_match_case_sensitive(pattern, value) ==
    LET pattern_lower == to_lowercase(pattern)
        parts == split(pattern_lower)
    IN  IF ~ContainsChar(pattern_lower, Star) THEN pattern_lower = value
        ELSE IF Len(parts) = 2 /\ parts[1] = <<>>
             THEN ends_with(value, parts[2])
        ELSE IF Len(parts) = 2 /\ parts[2] = <<>>
             THEN starts_with(value, parts[1])
        ELSE IF Len(parts) = 2
             THEN starts_with(value, parts[1]) /\ ends_with(value, parts[2])
        ELSE IF Len(parts) = 3 /\ parts[1] = <<>> /\ parts[3] = <<>>
             THEN contains(value, parts[2])
        ELSE MatchParts(parts, value)

glob_match(pattern, value) ==
    LET pattern_lower == to_lowercase(pattern)
        value_lower == to_lowercase(value)
        parts == split(pattern_lower)
    IN  IF ~ContainsChar(pattern_lower, Star) THEN pattern_lower = value_lower
        ELSE IF Len(parts) = 2 /\ parts[1] = <<>>
             THEN ends_with(value_lower, parts[2])
        ELSE IF Len(parts) = 2 /\ parts[2] = <<>>
             THEN starts_with(value_lower, parts[1])
        ELSE IF Len(parts) = 2
             THEN /\ starts_with(value_lower, parts[1])
                  /\ ends_with(value_lower, parts[2])
        ELSE IF Len(parts) = 3 /\ parts[1] = <<>> /\ parts[3] = <<>>
             THEN contains(value_lower, parts[2])
        ELSE MatchParts(parts, value_lower)

\* The strings over S of at most n characters.
StringsUpTo(S, n) == UNION {[1..k -> S] : k \in 0..n}

GlobCalls ==
    [fn : {"glob_match"},
     pattern : StringsUpTo(Letters \cup {Star}, MaxPatternLen),
     value : StringsUpTo(Letters, MaxValueLen)]

InitGlob ==
    /\ ManagerInit({0})
    /\ RestIdle
    /\ input \in GlobCalls
    /\ output = NoCall

GlobMatch ==
    /\ output = NoCall
    /\ output' = [fn |-> "glob_match",
                  result |-> glob_match(input.pattern, input.value)]
    /\ UNCHANGED <<mgr_vars, input, rest_vars>>

NextGlob == GlobMatch

SpecGlob == InitGlob /\ [][NextGlob]_vars

(***************************************************************************)
(* Claims about glob matching.                                             *)
(***************************************************************************)
GlobReturned == output # NoCall

StarCount(p) == Cardinality({k \in 1..Len(p) : p[k] = Star})

\* s with every character c replaced by its other case where it has one.
Lowered(s) == [k \in 1..Len(s) |-> IF s[k] = "B" THEN "b" ELSE s[k]]

\* The runs of characters other than the star in p, in order.
RECURSIVE Segments(_)
Segments(p) ==
    IF p = <<>> THEN <<>>
    ELSE IF Head(p) = Star THEN Segments(Tail(p))
    ELSE LET n == CHOOSE k \in 1..Len(p) :
                      /\ \A j \in 1..k : p[j] # Star
                      /\ k = Len(p) \/ p[k + 1] = Star
         IN  <<SubSeq(p, 1, n)>> \o Segments(SubSeq(p, n + 1, Len(p)))

\* The segments occur in v one after the other, at or after offset from,
\* without overlapping; gaps are allowed.
RECURSIVE InOrder(_, _, _)
InOrder(segs, v, from) ==
    \/ segs = <<>>
    \/ \E i \in from..Len(v) :
           /\ OccursAt(v, Head(segs), i)
           /\ InOrder(Tail(segs), v, i + Len(Head(segs)))

\* What the specification says of a pattern p and a value v, both in lower
\* case, by the shape of p.
MatchesByShape(p, v) ==
    IF StarCount(p) = 0 THEN p = v
    ELSE IF StarCount(p) = 1 /\ p[1] = Star
         THEN ends_with(v, Tail(p))
    ELSE IF StarCount(p) = 1 /\ p[Len(p)] = Star
         THEN starts_with(v, SubSeq(p, 1, Len(p) - 1))
    ELSE IF StarCount(p) = 1
         THEN \E k \in 2..(Len(p) - 1) :
                  /\ p[k] = Star
                  /\ starts_with(v, SubSeq(p, 1, k - 1))
                  /\ ends_with(v, SubSeq(p, k + 1, Len(p)))
    ELSE IF StarCount(p) = 2 /\ p[1] = Star /\ p[Len(p)] = Star
         THEN \E i \in 0..Len(v) : OccursAt(v, SubSeq(p, 2, Len(p) - 1), i)
    ELSE InOrder(Segments(p), v, 0)

\* C9: glob_match is case-insensitive and decides by the pattern's shape:
\* equality without a star, ends-with for *suffix, starts-with for prefix*,
\* both for prefix*suffix, containment for *mid*, and for more segments the
\* occurrence of every non-empty segment in order, gaps allowed.
C9_GlobByShape ==
    GlobReturned =>
        output.result =
            MatchesByShape(Lowered(input.pattern), Lowered(input.value))

\* C9 witness: a match under the in-order rule that needs both the case
\* folding and a gap between the segments.
C9_Witness ==
    /\ GlobReturned
    /\ output.result
    /\ input.pattern = <<"a", Star, "B", Star>>
    /\ input.value = <<"a", "a", "b", "a">>

\* A pattern matches a value as a glob: each star stands for any run of
\* characters, possibly empty, every other character for itself, and the
\* whole value is matched.
RECURSIVE MatchesAsGlob(_, _)
MatchesAsGlob(p, v) ==
    IF p = <<>> THEN v = <<>>
    ELSE IF Head(p) = Star
         THEN \/ MatchesAsGlob(Tail(p), v)
              \/ v # <<>> /\ MatchesAsGlob(p, Tail(v))
    ELSE /\ v # <<>>
         /\ Head(p) = Head(v)
         /\ MatchesAsGlob(Tail(p), Tail(v))

\* C10: glob_match returns true exactly when the lower-cased value matches
\* the lower-cased pattern as a glob.
C10_GlobEquivalence ==
    GlobReturned =>
        output.result =
            MatchesAsGlob(Lowered(input.pattern), Lowered(input.value))

(***************************************************************************)
(* Config: app-color lookup and style rules (config.rs).                   *)
(***************************************************************************)
\* Option<T>.
None == [some |-> FALSE, v |-> <<>>]
Some(x) == [some |-> TRUE, v |-> x]

\* `HashMap::get`: the value stored under the key equal to k.  A map is
\* the sequence of its [key, value] entries, without repeated keys, in the
\* order in which this map iterates.
MapGet(m, k) ==
    IF \E i \in 1..Len(m) : m[i].key = k
    THEN Some(m[CHOOSE i \in 1..Len(m) : m[i].key = k].value)
    ELSE None

\* The loop `for (pattern, color) in &self.app_colors`: the first entry, in
\* the map's iteration order, whose key glob-matches.
FirstPatternMatch(m, app_name) ==
    IF \E i \in 1..Len(m) : glob_match(m[i].key, app_name)
    THEN Some(m[CHOOSE i \in 1..Len(m) :
                    /\ glob_match(m[i].key, app_name)
                    /\ \A j \in 1..(i - 1) : ~glob_match(m[j].key, app_name)
               ].value)
    ELSE None

\* Mutation of get_app_color: no exact lookup before the pattern loop.
get_app_color_patterns_only(app_colors, app_name) ==
    FirstPatternMatch(app_colors, app_name)

get_app_color(app_colors, app_name) ==
    IF MapGet(app_colors, app_name).some THEN MapGet(app_colors, app_name)
    ELSE FirstPatternMatch(app_colors, app_name)

\* Mutation of NotificationRule::matches: only the app_name pattern counts.
matches_app_name_only(rule, app_name, summary, body) ==
    ~(rule.app_name.some /\ ~glob_match(rule.app_name.v, app_name))

\* NotificationRule::matches.
matches(rule, app_name, summary, body) ==
    IF rule.app_name.some /\ ~glob_match(rule.app_name.v, app_name)
    THEN FALSE
    ELSE IF rule.summary.some /\ ~glob_match(rule.summary.v, summary)
    THEN FALSE
    ELSE IF rule.body.some /\ ~glob_match(rule.body.v, body)
    THEN FALSE
    ELSE TRUE

\* Config::get_matching_rule: `rules.iter().find(..)`, as the 1-based
\* position of the rule found, 0 for None.
get_matching_rule(rules, app_name, summary, body) ==
    IF \E i \in 1..Len(rules) : matches(rules[i], app_name, summary, body)
    THEN CHOOSE i \in 1..Len(rules) :
             /\ matches(rules[i], app_name, summary, body)
             /\ \A j \in 1..(i - 1) :
                    ~matches(rules[j], app_name, summary, body)
    ELSE 0

\* The sequences of at most n elements of S without repetition.
DistinctSeqs(S, n) ==
    {s \in UNION {[1..k -> S] : k \in 0..n} :
        \A i, j \in 1..Len(s) : i # j => s[i] # s[j]}

\* Keys of the sampled app-color maps; the color stored under
\* a key names the key.
AppColorKeys == {<<"a">>, <<"b">>, <<"B">>, <<Star>>, <<"b", Star>>}

AppColorMaps ==
    {[i \in 1..Len(ks) |-> [key |-> ks[i], value |-> ks[i]]] :
        ks \in DistinctSeqs(AppColorKeys, MaxAppColors)}

AppNameSamples == {<<"a">>, <<"b">>, <<"B">>, <<"b", "a">>, <<"a", "b">>}

AppColorCalls ==
    [fn : {"get_app_color"}, app_colors : AppColorMaps,
     app_name : AppNameSamples]

InitColor ==
    /\ ManagerInit({0})
    /\ RestIdle
    /\ input \in AppColorCalls
    /\ output = NoCall

GetAppColor ==
    /\ output = NoCall
    /\ output' = [fn |-> "get_app_color",
                  color |-> get_app_color(input.app_colors, input.app_name)]
    /\ UNCHANGED <<mgr_vars, input, rest_vars>>

NextColor == GetAppColor

SpecColor == InitColor /\ [][NextColor]_vars

\* Patterns of the sampled style rules.
RulePatterns == {None, Some(<<"a">>), Some(<<"b", Star>>)}

RuleSamples ==
    [app_name : RulePatterns, summary : RulePatterns, body : RulePatterns]

TextSamples == {<<"a">>, <<"b">>}

RuleCalls ==
    [fn : {"get_matching_rule"},
     rules : UNION {[1..k -> RuleSamples] : k \in 0..MaxRules},
     app_name : TextSamples, summary : TextSamples, body : TextSamples]

InitRule ==
    /\ ManagerInit({0})
    /\ RestIdle
    /\ input \in RuleCalls
    /\ output = NoCall

GetMatchingRule ==
    /\ output = NoCall
    /\ output' = [fn |-> "get_matching_rule",
                  index |-> get_matching_rule(input.rules, input.app_name,
                                              input.summary, input.body)]
    /\ UNCHANGED <<mgr_vars, input, rest_vars>>

NextRule == GetMatchingRule

SpecRule == InitRule /\ [][NextRule]_vars

(***************************************************************************)
(* Claims about the app-color lookup and the style rules.                  *)
(***************************************************************************)
ColorReturned == output # NoCall

\* The keys of map m that are equal to k; that glob-match k.
ExactKeys(m, k) == {i \in 1..Len(m) : m[i].key = k}
MatchingKeys(m, k) == {i \in 1..Len(m) : glob_match(m[i].key, k)}

\* C11: the lookup returns the color under the key equal to the app name
\* whenever there is one, even if patterns match too; without such a key
\* the color of a matching pattern; none when nothing matches.
C11_ExactBeforePattern ==
    ColorReturned =>
        LET m == input.app_colors
            k == input.app_name
        IN  /\ ExactKeys(m, k) # {} =>
                   \E i \in ExactKeys(m, k) : output.color = Some(m[i].value)
            /\ (ExactKeys(m, k) = {} /\ MatchingKeys(m, k) # {}) =>
                   \E i \in MatchingKeys(m, k) :
                       output.color = Some(m[i].value)
            /\ MatchingKeys(m, k) = {} => output.color = None

\* C11 witness: the exact key is returned although a pattern that comes
\* first in the map matches the app name too.
C11_Witness ==
    /\ ColorReturned
    /\ input.app_name = <<"b">>
    /\ input.app_colors = <<[key |-> <<Star>>, value |-> <<Star>>],
                            [key |-> <<"b">>, value |-> <<"b">>]>>
    /\ output.color = Some(<<"b">>)

RuleReturned == output # NoCall

\* Every pattern the rule specifies glob-matches its field.
AllSpecifiedMatch(rule, c) ==
    /\ rule.app_name = None \/ glob_match(rule.app_name.v, c.app_name)
    /\ rule.summary = None \/ glob_match(rule.summary.v, c.summary)
    /\ rule.body = None \/ glob_match(rule.body.v, c.body)

\* C12: the rule lookup returns the first rule, in declared order, all of
\* whose specified patterns match; no rule when none does.
C12_FirstMatchingRule ==
    RuleReturned =>
        LET good == {i \in 1..Len(input.rules) :
                        AllSpecifiedMatch(input.rules[i], input)}
        IN  /\ good = {} => output.index = 0
            /\ good # {} =>
                   /\ output.index \in good
                   /\ \A i \in good : output.index <= i

\* C12 witness: the second rule is returned, the first one failing on its
\* body pattern alone.
C12_Witness ==
    /\ RuleReturned
    /\ output.index = 2
    /\ input.rules[1].app_name # None
    /\ glob_match(input.rules[1].app_name.v, input.app_name)
    /\ input.rules[1].body # None
    /\ input.rules[2].summary = None

(***************************************************************************)
(* History (history.rs): a bounded, persisted queue of entries.  An entry  *)
(* is modelled by its id.                                                  *)
(***************************************************************************)
\* The id of the i-th entry that is on disk when the history is opened.
LoadedId(i) == 100 + i

\* The files History::new can find: written by earlier runs.
DiskSamples == {[i \in 1..k |-> LoadedId(i)] : k \in 0..MaxLoaded}

\* `while self.entries.len() > self.limit { self.entries.pop_front(); }`
RECURSIVE EnforceLimit(_, _)
EnforceLimit(es, lim) ==
    IF Len(es) > lim THEN EnforceLimit(Tail(es), lim) ELSE es

\* Mutation of History::add: at most one entry is dropped per call.
history_add_pop_once(es, lim, entry) ==
    IF Len(es) + 1 > lim THEN Tail(Append(es, entry)) ELSE Append(es, entry)

\* History::add, the in-memory part: push_back, then enforce the limit.
history_add(es, lim, entry) == EnforceLimit(Append(es, entry), lim)

\* History::len
history_len(es) == Len(es)

\* The fields of the entry with a given id that History::search reads:
\* entries that differ in the field that holds a letter and in its case,
\* and one with no letters at all.
HistoryEntry(id) ==
    CASE id % 4 = 0 -> [id |-> id, app_name |-> <<"a">>,
                        summary |-> <<"B", "a">>, body |-> <<>>]
      [] id % 4 = 1 -> [id |-> id, app_name |-> <<"B">>,
                        summary |-> <<>>, body |-> <<"a", "b">>]
      [] id % 4 = 2 -> [id |-> id, app_name |-> <<>>,
                        summary |-> <<>>, body |-> <<>>]
      [] OTHER      -> [id |-> id, app_name |-> <<"b">>,
                        summary |-> <<"b", "B">>, body |-> <<"a", "a">>]

\* Mutation of History::recent: the oldest entries, in stored order.
history_recent_oldest(es, count) == SubSeq(es, 1, Min(count, Len(es)))

\* History::recent: `self.entries.iter().rev().take(count).collect()`.
history_recent(es, count) ==
    [k \in 1..Min(count, Len(es)) |-> es[Len(es) + 1 - k]]

\* History::all: `self.entries.iter().collect()`.
history_all(es) == [k \in 1..Len(es) |-> es[k]]

\* Mutation of the filter of History::search: the fields are compared as
\* they are stored.
search_filter_case_sensitive(e, query) ==
    LET query_lower == to_lowercase(query)
    IN  \/ contains(e.app_name, query_lower)
        \/ contains(e.summary, query_lower)
        \/ contains(e.body, query_lower)

\* The closure given to `filter` in History::search.
search_filter(e, query) ==
    LET query_lower == to_lowercase(query)
    IN  \/ contains(to_lowercase(e.app_name), query_lower)
        \/ contains(to_lowercase(e.summary), query_lower)
        \/ contains(to_lowercase(e.body), query_lower)

\* History::search: `self.entries.iter().filter(..).collect()`.
history_search(es, query) ==
    SelectSeq(es, LAMBDA id : search_filter(HistoryEntry(id), query))

\* The queries given to History::search.
QuerySamples == StringsUpTo(Letters, MaxQueryLen)

\* History::new(limit), on each of the files it can load.
InitHistory ==
    /\ ManagerInit({0})
    /\ input = NoCall
    /\ output = NoCall
    /\ history_limit \in 0..MaxHistoryLimit
    /\ disk \in DiskSamples
    /\ entries = disk
    /\ stored = disk
    /\ add_ret = "none"
    /\ WindowIdle
    /\ LoopIdle

\* The number of History::add calls so far; the next entry's id.
AddCount == Len(SelectSeq(stored, LAMBDA e : e < LoadedId(1)))

\* History::add(entry): the entries change, then save() writes them to
\* the file or fails, and its result is the result of add.
HistoryAdd ==
    /\ AddCount < MaxAdds
    /\ LET entry == AddCount
       IN  /\ entries' = history_add(entries, history_limit, entry)
           /\ stored' = Append(stored, entry)
    /\ \/ disk' = entries' /\ add_ret' = "Ok"
       \/ disk' = disk /\ add_ret' = "Err"
    /\ input' = NoCall
    /\ output' = NoCall
    /\ UNCHANGED <<mgr_vars, history_limit, win_vars, loop_vars>>

\* A query on the history (`&self`): nothing of the history changes.  The
\* returned references are modelled by the ids of the entries.
HistoryQuery(call, result) ==
    /\ input' = call
    /\ output' = [fn |-> call.fn, result |-> result]
    /\ UNCHANGED <<mgr_vars, hist_vars, win_vars, loop_vars>>

\* History::recent(count)
HistoryRecent ==
    \E count \in 0..MaxCount :
        HistoryQuery([fn |-> "recent", count |-> count],
                     history_recent(entries, count))

\* History::all()
HistoryAll == HistoryQuery([fn |-> "all"], history_all(entries))

\* History::search(query)
HistorySearch ==
    \E query \in QuerySamples :
        HistoryQuery([fn |-> "search", query |-> query],
                     history_search(entries, query))

NextHistory ==
    \/ HistoryAdd
    \/ HistoryRecent
    \/ HistoryAll
    \/ HistorySearch

SpecHistory == InitHistory /\ [][NextHistory]_vars

(***************************************************************************)
(* Claims about the history.                                               *)
(***************************************************************************)
HistoryAdded == add_ret # "none"

\* C20: after one or more adds on a history with limit N, len() is at most
\* N and the entries are the min(N, number of entries given to the history)
\* most recent ones, oldest first; entries loaded from the file count as
\* given by earlier runs.
C20_KeepsMostRecent ==
    HistoryAdded =>
        /\ history_len(entries) <= history_limit
        /\ entries = LastK(stored, Min(history_limit, Len(stored)))

\* C20 witness: limit 3 and five adds to an empty history leave the last
\* three entries.
C20_Witness ==
    /\ HistoryAdded
    /\ history_limit = 3
    /\ stored = <<0, 1, 2, 3, 4>>
    /\ entries = <<2, 3, 4>>

(***************************************************************************)
(* X11Window::draw (x11.rs): the layout of the displayed notifications.    *)
(* A string is a sequence of pieces; a piece is a character or a literal   *)
(* part of a format string.                                                *)
(***************************************************************************)
\* Notification::matches_filter: a notification carries the set of the
\* filters it passes.
matches_filter(notification, filter) == filter \in notification.passes

\* `str::replace(c, r)`: every character c of s replaced by the string r.
RECURSIVE Replace(_, _, _)
Replace(s, c, r) ==
    IF s = <<>> THEN <<>>
    ELSE (IF Head(s) = c THEN r ELSE <<Head(s)>>) \o Replace(Tail(s), c, r)

\* Mutation of escape_markup: `&` is replaced last.
escape_markup_ampersand_last(s) ==
    LET s1 == Replace(s, "<", <<"&", "l", "t", ";">>)
        s2 == Replace(s1, ">", <<"&", "g", "t", ";">>)
        s3 == Replace(s2, "\"", <<"&", "q", "u", "o", "t", ";">>)
        s4 == Replace(s3, "'", <<"&", "#", "3", "9", ";">>)
    IN  Replace(s4, "&", <<"&", "a", "m", "p", ";">>)

\* X11Window::escape_markup: five replacements, `&` first.
escape_markup(s) ==
    LET s1 == Replace(s, "&", <<"&", "a", "m", "p", ";">>)
        s2 == Replace(s1, "<", <<"&", "l", "t", ";">>)
        s3 == Replace(s2, ">", <<"&", "g", "t", ";">>)
        s4 == Replace(s3, "\"", <<"&", "q", "u", "o", "t", ";">>)
    IN  Replace(s4, "'", <<"&", "#", "3", "9", ";">>)

\* The decimal digit d as a character.
DigitChar(d) == <<"0", "1", "2", "3", "4", "5", "6", "7", "8", "9">>[d + 1]

\* The decimal digits of n, as `{}` formats an unsigned integer.
RECURSIVE Digits(_)
Digits(n) ==
    IF n < 10 THEN <<DigitChar(n)>>
    ELSE Append(Digits(n \div 10), DigitChar(n % 10))

\* `{:>3}`: s right-aligned in a field of three characters.
RightAlign3(s) ==
    IF Len(s) >= 3 THEN s ELSE [k \in 1..(3 - Len(s)) |-> " "] \o s

\* `now.saturating_sub(notification.timestamp)`
saturating_sub(a, b) == IF a >= b THEN a - b ELSE 0

\* Mutation of age_display: an age of 60 seconds is still given in seconds.
age_display_minute_late(age_secs) ==
    IF age_secs <= 60 THEN Append(RightAlign3(Digits(age_secs)), "s")
    ELSE IF age_secs < 3600
    THEN Append(RightAlign3(Digits(age_secs \div 60)), "m")
    ELSE Append(RightAlign3(Digits(age_secs \div 3600)), "h")

\* The age label: seconds below a minute, minutes below an hour, else hours.
age_display(age_secs) ==
    IF age_secs < 60 THEN Append(RightAlign3(Digits(age_secs)), "s")
    ELSE IF age_secs < 3600
    THEN Append(RightAlign3(Digits(age_secs \div 60)), "m")
    ELSE Append(RightAlign3(Digits(age_secs \div 3600)), "h")

\* The markup of one notification: the `format!` of draw.
notification_markup(notification, now_secs) ==
    <<"<tt><span foreground=\"#888888\">">>
    \o age_display(saturating_sub(now_secs, notification.timestamp))
    \o <<"</span></tt> ">> \o escape_markup(notification.app_name)
    \o <<" <b>">> \o escape_markup(notification.summary) \o <<"</b>">>
    \o (IF notification.body = <<>> THEN <<>>
        ELSE <<"\n  ">> \o escape_markup(notification.body))

\* The markup of the footer that counts the notifications not displayed.
more_markup(hidden) ==
    <<"<span foreground=\"#888888\"><i>... and ">> \o Digits(hidden)
    \o <<" more</i></span>">>

\* `layout.pixel_size()`, the height: the lines of the markup times the
\* line height of the font.
pixel_height(markup, line_height) ==
    line_height * (1 + Cardinality({k \in 1..Len(markup) : markup[k] = "\n  "}))

\* `let separator_height = 2;`
separator_height == 2

\* `config.global.min_width.unwrap_or(600) as i32`
DefaultWrapWidth == 600
wrap_width_of(cfg) ==
    IF cfg.global.min_width.some THEN cfg.global.min_width.v
    ELSE DefaultWrapWidth

\* Config::get_urgency_config
get_urgency_config(cfg, urgency) ==
    CASE urgency = "Low" -> cfg.urgency_low
      [] urgency = "Normal" -> cfg.urgency_normal
      [] OTHER -> cfg.urgency_critical

\* The expiry test of run_commands: an absent expire_timeout counts as a
\* duration of zero (`unwrap_or_default`).
SkippedAsExpired(notification, now_secs) ==
    notification.timestamp
        + (IF notification.expire_timeout.some
           THEN notification.expire_timeout.v ELSE 0) < now_secs

\* The commands of run_commands that come past both `continue`s for the
\* notification: the filter is absent or matches, and the expiry test does
\* not skip.
Attempted(commands, notification, now_secs) ==
    SelectSeq(commands,
              LAMBDA c : /\ ~(c.filter.some
                              /\ ~matches_filter(notification, c.filter.v))
                         /\ ~SkippedAsExpired(notification, now_secs))

\* UrgencyConfig::run_commands: the commands spawned, and whether the call
\* returned Ok.  With spawn_fails the first spawn attempted returns an
\* error, which ends the call.
run_commands(urgency_config, notification, now_secs, spawn_fails) ==
    IF ~urgency_config.custom_commands.some
    THEN [spawned |-> <<>>, ok |-> TRUE]
    ELSE IF Attempted(urgency_config.custom_commands.v, notification,
                      now_secs) = <<>>
    THEN [spawned |-> <<>>, ok |-> TRUE]
    ELSE IF spawn_fails THEN [spawned |-> <<>>, ok |-> FALSE]
    ELSE [spawned |->
              [k \in 1..Len(Attempted(urgency_config.custom_commands.v,
                                      notification, now_secs)) |->
                  <<notification.id,
                    Attempted(urgency_config.custom_commands.v,
                              notification, now_secs)[k].name>>],
          ok |-> TRUE]

\* Mutation of resolve_bg_color: the first matching rule that has a
\* background counts.
resolve_bg_color_any_rule(cfg, notification) ==
    LET with_bg == SelectSeq(cfg.rules, LAMBDA r : r.background.some)
        i == get_matching_rule(with_bg, notification.app_name,
                               notification.summary, notification.body)
    IN  IF i # 0 THEN with_bg[i].background
        ELSE get_app_color(cfg.app_colors, notification.app_name)

\* The background of a notification: the matching rule's, if the rule has
\* one, else the app color.
resolve_bg_color(cfg, notification) ==
    LET i == get_matching_rule(cfg.rules, notification.app_name,
                               notification.summary, notification.body)
    IN  IF i # 0 /\ cfg.rules[i].background.some
        THEN cfg.rules[i].background
        ELSE get_app_color(cfg.app_colors, notification.app_name)

\* `notifications.iter().collect()` followed by `reverse()`.
Reverse(s) == [k \in 1..Len(s) |-> s[Len(s) + 1 - k]]

\* Mutation of original_idx: the index in the reversed list.
original_idx_reversed(len, idx) == idx

\* `let original_idx = notifications.len() - 1 - idx;`
original_idx(len, idx) == len - 1 - idx

\* The entry of the notification at position k of the reversed list of n.
notification_entry(cfg, notification, k, n, now_secs, line_height) ==
    LET markup == notification_markup(notification, now_secs)
    IN  [markup |-> markup,
         bg_color |-> resolve_bg_color(cfg, notification),
         height |-> pixel_height(markup, line_height),
         is_separator |-> FALSE,
         original_index |-> Some(original_idx(n, k - 1))]

separator_entry ==
    [markup |-> <<>>, bg_color |-> None, height |-> separator_height,
     is_separator |-> TRUE, original_index |-> None]

footer_entry(hidden, line_height) ==
    [markup |-> more_markup(hidden), bg_color |-> None,
     height |-> pixel_height(more_markup(hidden), line_height),
     is_separator |-> FALSE, original_index |-> None]

\* Mutation of separator_after: a separator after every notification.
separator_after_every(idx, len) == TRUE

\* `if idx < notifications_reversed.len() - 1`
separator_after(idx, len) == idx < len - 1

\* The concatenation of the sequences of ss.
RECURSIVE Flatten(_)
Flatten(ss) == IF ss = <<>> THEN <<>> ELSE Head(ss) \o Flatten(Tail(ss))

\* run_commands for the k-th notification of the reversed list.
RanFor(cfg, reversed, k, now_secs, spawn_fails) ==
    run_commands(get_urgency_config(cfg, reversed[k].urgency), reversed[k],
                 now_secs, spawn_fails)

\* The number of calls of run_commands in the first loop of draw: one for
\* each notification, up to the first call that returns an error.
commands_run(cfg, reversed, now_secs, spawn_fails) ==
    IF \A k \in 1..Len(reversed) :
           RanFor(cfg, reversed, k, now_secs, spawn_fails).ok
    THEN Len(reversed)
    ELSE CHOOSE k \in 1..Len(reversed) :
             /\ ~RanFor(cfg, reversed, k, now_secs, spawn_fails).ok
             /\ \A j \in 1..(k - 1) :
                    RanFor(cfg, reversed, j, now_secs, spawn_fails).ok

\* The first loop of draw over the reversed list: the commands of each
\* notification are run, then its entry is pushed, and a separator after
\* every notification but the last.  An error of run_commands ends the
\* draw: with spawn_fails nothing is spawned before the error.
BuildEntries(cfg, reversed, now_secs, line_height, spawn_fails) ==
    [entries |->
         Flatten([k \in 1..Len(reversed) |->
             <<notification_entry(cfg, reversed[k], k, Len(reversed),
                                  now_secs, line_height)>>
             \o (IF separator_after(k - 1, Len(reversed))
                 THEN <<separator_entry>> ELSE <<>>)]),
     spawned |->
         Flatten([k \in 1..Len(reversed) |->
             RanFor(cfg, reversed, k, now_secs, spawn_fails).spawned]),
     ok |-> \A k \in 1..Len(reversed) :
                RanFor(cfg, reversed, k, now_secs, spawn_fails).ok,
     calls |->
         [k \in 1..commands_run(cfg, reversed, now_secs, spawn_fails) |->
             <<"run_commands", reversed[k].id>>]]

\* `entries.iter().map(|e| e.height).sum()`
RECURSIVE SumHeights(_)
SumHeights(es) ==
    IF es = <<>> THEN 0 ELSE Head(es).height + SumHeights(Tail(es))

\* Mutation of new_bounds: the footer gets a bound as well.
RECURSIVE new_bounds_with_footer(_, _)
new_bounds_with_footer(es, y_pos) ==
    IF es = <<>> THEN <<>>
    ELSE (IF ~Head(es).is_separator
          THEN <<[y_start |-> y_pos, y_end |-> y_pos + Head(es).height,
                  idx |-> IF Head(es).original_index.some
                          THEN Head(es).original_index.v ELSE 0]>>
          ELSE <<>>)
         \o new_bounds_with_footer(Tail(es), y_pos + Head(es).height)

\* The second loop of draw from vertical position y_pos on: a bound
\* (y_start, y_end, idx) for every entry that has an original index.
RECURSIVE new_bounds(_, _)
new_bounds(es, y_pos) ==
    IF es = <<>> THEN <<>>
    ELSE (IF ~Head(es).is_separator /\ Head(es).original_index.some
          THEN <<[y_start |-> y_pos, y_end |-> y_pos + Head(es).height,
                  idx |-> Head(es).original_index.v]>>
          ELSE <<>>)
         \o new_bounds(Tail(es), y_pos + Head(es).height)

\* Mutation of store_bounds: the new bounds are added to the old ones.
store_bounds_extend(old_bounds, bounds) == old_bounds \o bounds

\* `*bounds = new_bounds;`
store_bounds(old_bounds, bounds) == bounds

\* The calls of draw that can return an error: "spawn" is the first spawn
\* of a command, "resize" is configure_window, "paint" is the paint of the
\* whole surface.  ("fill", the fill of the close button of the top block,
\* is drawn only by the draws in steps.)
Faults == {"none", "spawn", "resize", "paint"}

\* The frame of a draw that did nothing, or that failed: the window as it
\* is left, and the commands spawned.
NoFrame(result, bounds, width, spawned, steps, now_secs) ==
    [result |-> result, painted |-> FALSE, entries |-> <<>>,
     total_height |-> 0, geometry |-> None, spawned |-> spawned,
     now |-> now_secs, entry_bounds |-> bounds, current_width |-> width,
     steps |-> steps, fill |-> "none"]

\* `connection.configure_window(..)?; self.surface.set_size(..)?;`, under
\* `if config.global.wrap_content`.
resize_steps(cfg) ==
    IF cfg.global.wrap_content
    THEN <<(<<"configure_window", 0>>), (<<"set_size", 0>>)>>
    ELSE <<>>

\* The second loop of draw: the blocks are drawn in the order of the entries.
block_steps(es) == [k \in 1..Len(es) |-> <<"block", k>>]

\* Mutation of finish_steps: the surface is flushed before the bounds are
\* stored.
flush_then_store == <<(<<"flush", 0>>), (<<"store_bounds", 0>>)>>

\* `*bounds = new_bounds;` and then `self.surface.flush();`
finish_steps == <<(<<"store_bounds", 0>>), (<<"flush", 0>>)>>

\* The end of draw, once the entries are laid out and their heights are
\* summed: the width is stored, the window resized if wrap_content, the
\* surface painted and the bounds stored.
paint_entries(bounds, cfg, now_secs, fault, spawned, calls, newest, es, total_height) ==
    IF cfg.global.wrap_content /\ fault = "resize"
    THEN NoFrame("Err", bounds, wrap_width_of(cfg), spawned,
                 calls \o <<(<<"store_width", 0>>),
                            (<<"configure_window", 0>>)>>, now_secs)
    ELSE IF fault \in {"paint", "fill"}
    THEN NoFrame("Err", bounds, wrap_width_of(cfg), spawned,
                 calls \o <<(<<"store_width", 0>>)>> \o resize_steps(cfg)
                     \o <<(<<"paint", 0>>)>>
                     \o (IF fault = "fill" THEN <<(<<"block", 1>>)>> ELSE <<>>),
                 now_secs)
    ELSE [result |-> "Ok", painted |-> TRUE, entries |-> es,
          total_height |-> total_height,
          geometry |-> IF cfg.global.wrap_content
                       THEN Some([width |-> wrap_width_of(cfg),
                                  height |-> IF total_height > 1
                                             THEN total_height ELSE 1])
                       ELSE None,
          spawned |-> spawned,
          now |-> now_secs,
          entry_bounds |-> store_bounds(bounds, new_bounds(es, 0)),
          current_width |-> wrap_width_of(cfg),
          steps |-> calls \o <<(<<"store_width", 0>>)>> \o resize_steps(cfg)
                        \o <<(<<"paint", 0>>)>> \o block_steps(es)
                        \o finish_steps,
          fill |-> newest.urgency]

\* Mutation of has_more: a footer also when every unread notification is
\* displayed.
has_more_or_equal(count, displayed) == count >= displayed

\* `if unread_count > notifications.len()`
has_more(count, displayed) == count > displayed

\* The footer of draw: an entry that counts the unread notifications not
\* displayed, if there are any.
with_footer(es, displayed, count, line_height) ==
    IF has_more(count, displayed)
    THEN Append(es, footer_entry(count - displayed, line_height))
    ELSE es

\* Mutation of empty_draw: the click bounds are cleared.
empty_draw_clears(bounds, width, now_secs) ==
    NoFrame("Ok", <<>>, width, <<>>, <<>>, now_secs)

\* `if notifications.is_empty() { return Ok(()); }`
empty_draw(bounds, width, now_secs) ==
    NoFrame("Ok", bounds, width, <<>>, <<>>, now_secs)

\* X11Window::draw on a window with the given bounds and width.  The
\* result carries the entries laid out, the commands spawned and the bounds
\* and width stored in the window when draw returns.
draw(bounds, width, list, count, cfg, now_secs, line_height, fault) ==
    IF list = <<>> THEN empty_draw(bounds, width, now_secs)
    ELSE LET built == BuildEntries(cfg, Reverse(list), now_secs, line_height,
                                   fault = "spawn")
             es == IF built.ok
                   THEN with_footer(built.entries, Len(list), count,
                                    line_height)
                   ELSE <<>>
         IN  IF ~built.ok
             THEN NoFrame("Err", bounds, width, built.spawned, built.calls,
                          now_secs)
             ELSE paint_entries(bounds, cfg, now_secs, fault, built.spawned,
                                built.calls, Reverse(list)[1], es,
                                SumHeights(es))

\* The notifications by id: four kinds, which differ in texts, urgency,
\* expire_timeout and the filters passed.
Notification(id) ==
    LET kind == id % 4
    IN  [id |-> id,
         app_name |-> CASE kind = 1 -> <<"a">> [] kind = 2 -> <<"b">>
                        [] kind = 3 -> <<"B", "&">> [] OTHER -> <<"a", "b">>,
         summary |-> IF kind = 3 THEN <<"<", "b", ">">> ELSE <<"a">>,
         body |-> IF kind \in {2, 3} THEN <<"b">> ELSE <<>>,
         urgency |-> CASE kind = 1 -> "Low" [] kind = 0 -> "Critical"
                       [] OTHER -> "Normal",
         timestamp |-> IF kind = 3 THEN 20 ELSE 10,
         expire_timeout |-> CASE kind = 1 -> None [] kind = 2 -> Some(5)
                              [] kind = 3 -> Some(0) [] OTHER -> Some(100),
         passes |-> IF kind \in {2, 0} THEN {"f"} ELSE {}]

Notifications(ids) == [k \in 1..Len(ids) |-> Notification(ids[k])]

\* The clock readings.
TimeSamples == {10, 70, 4000}

\* GlobalConfig::min_width
MinWidthSamples == {None, Some(20), Some(30), Some(31)}

\* Config::rules and Config::app_colors
StyleSamples ==
    LET colors == <<[key |-> <<"b">>, value |-> "#0000bb"],
                    [key |-> <<Star>>, value |-> "#aaaaaa"]>>
        rule(bg) == [app_name |-> Some(<<"b", Star>>), summary |-> None,
                     body |-> None, background |-> bg]
    IN  {[rules |-> <<>>, app_colors |-> <<>>],
         [rules |-> <<rule(Some("#111111"))>>, app_colors |-> colors],
         [rules |-> <<rule(None)>>, app_colors |-> colors]}

\* UrgencyConfig::custom_commands
CommandSamples ==
    {None,
     Some(<<[name |-> "c1", filter |-> None]>>),
     Some(<<[name |-> "c1", filter |-> Some("f")],
            [name |-> "c2", filter |-> None]>>)}

\* The Config with the given settings; the three urgency levels have the
\* same commands.
ConfigOf(min_width, wrap_content, refresh_interval_ms, style, commands) ==
    [global |-> [min_width |-> min_width, wrap_content |-> wrap_content,
                 refresh_interval_ms |-> refresh_interval_ms],
     urgency_low |-> [custom_commands |-> commands],
     urgency_normal |-> [custom_commands |-> commands],
     urgency_critical |-> [custom_commands |-> commands],
     app_colors |-> style.app_colors,
     rules |-> style.rules]

\* `fn default_refresh_interval() -> u64 { 1000 }`
default_refresh_interval == 1000

\* The styles with the commands they are sampled with.
StyledCommands ==
    {<<s, c>> \in StyleSamples \X CommandSamples :
        Len(s.rules) + Len(s.app_colors) = 0 <=> c = None}

DrawConfigs ==
    {ConfigOf(IF wrap THEN None ELSE Some(20), wrap,
              default_refresh_interval, sc[1], sc[2]) :
        wrap \in BOOLEAN, sc \in StyledCommands}

\* The lists of notifications handed to draw: ids in increasing order,
\* as the Manager returns them, oldest first.
ShownSamples ==
    {s \in UNION {[1..k -> 1..MaxShown] : k \in 0..MaxShown} :
        \A i, j \in 1..Len(s) : i < j => s[i] < s[j]}

\* The line heights of the sampled fonts, in pixels.
LineHeights == {1, 2}

\* A window before its first draw, and the arguments of the draws to come.
InitDraw ==
    /\ ManagerInit({0})
    /\ input = NoCall
    /\ output = NoCall
    /\ HistoryIdle
    /\ LoopIdle
    /\ config \in DrawConfigs
    /\ font_line_height \in LineHeights
    /\ entry_bounds = <<>>
    /\ current_width = 0
    /\ now = 10
    /\ shown \in ShownSamples
    /\ unread_count \in {c \in (Len(shown) - 1)..(Len(shown) + 1) : c >= 0}
    /\ frame = NoDraw
    /\ last_frame = NoDraw
    /\ drawn = <<>>

\* window.draw(connection, notifications, unread_count, &config) at clock
\* reading t, with the given call failing.
DoDraw(t, fault) ==
    \E f \in {draw(entry_bounds, current_width, Notifications(shown),
                    unread_count, config, t, font_line_height, fault)} :
        /\ frame' = f
        /\ entry_bounds' = f.entry_bounds
        /\ current_width' = f.current_width
        /\ now' = t
        /\ drawn' = IF f.painted THEN shown ELSE drawn

Draw ==
    /\ \E t \in TimeSamples, fault \in Faults : t >= now /\ DoDraw(t, fault)
    /\ last_frame' = frame
    /\ UNCHANGED <<mgr_vars, pure_vars, hist_vars, loop_vars, config,
                   font_line_height, shown, unread_count>>

NextDraw == Draw

SpecDraw == InitDraw /\ [][NextDraw]_vars

(***************************************************************************)
(* X11Window::escape_markup on its own, and in the markup of one           *)
(* notification that holds the text in one of its three fields.            *)
(***************************************************************************)
\* The characters of the escaped texts: the five reserved ones and a letter.
TextChars == {"&", "<", ">", "\"", "'", "a"}

\* The fields of a notification that draw escapes.
EscapedFields == {"app_name", "summary", "body"}

EscapeCalls ==
    [fn : {"escape_markup"},
     field : EscapedFields,
     text : StringsUpTo(TextChars, MaxTextLen)]

\* A notification with the text in the given field.
NotificationWith(field, text) ==
    [Notification(1) EXCEPT ![field] = text]

InitEscape ==
    /\ ManagerInit({0})
    /\ RestIdle
    /\ input \in EscapeCalls
    /\ output = NoCall

\* The escapes and the `format!` of draw, for one notification.
EscapeMarkup ==
    /\ output = NoCall
    /\ output' = [fn |-> "escape_markup",
                  result |-> escape_markup(input.text),
                  markup |-> notification_markup(
                                 NotificationWith(input.field, input.text), 10)]
    /\ UNCHANGED <<mgr_vars, input, rest_vars>>

NextEscape == EscapeMarkup

SpecEscape == InitEscape /\ [][NextEscape]_vars

(***************************************************************************)
(* X11::handle_events (x11.rs): the event loop.  One action per statement  *)
(* that calls the connection, the Manager, the window or the callback, so  *)
(* that the ingestion context can enqueue between any two of them.         *)
(***************************************************************************)
\* `const CLOSE_BUTTON_WIDTH: i32 = 30;`
CLOSE_BUTTON_WIDTH == 30

\* `const POLL_INTERVAL_MS: u64 = 50;`
POLL_INTERVAL_MS == 50

\* Mutation of use_refresh: polling whenever a refresh interval is set.
use_refresh_without_unread(refresh_interval, count) == refresh_interval > 0

\* `let use_refresh = refresh_interval > 0 && has_unread;` where has_unread
\* is `manager.get_unread_count() > 0`.
use_refresh(refresh_interval, count) == refresh_interval > 0 /\ count > 0

\* X11Window::get_clicked_index: the index of the first bound that holds y.
get_clicked_index(bounds, y) ==
    IF \E k \in 1..Len(bounds) : y >= bounds[k].y_start /\ y < bounds[k].y_end
    THEN Some(bounds[CHOOSE k \in 1..Len(bounds) :
                  /\ y >= bounds[k].y_start /\ y < bounds[k].y_end
                  /\ \A j \in 1..(k - 1) :
                         ~(y >= bounds[j].y_start /\ y < bounds[j].y_end)].idx)
    ELSE None

\* Mutation of invoke_action: no close button.
invoke_action_everywhere(event_x, window_width) == event_x < window_width

\* `(ev.event_x as i32) < window_width - Self::CLOSE_BUTTON_WIDTH`
invoke_action(event_x, window_width) ==
    event_x < window_width - CLOSE_BUTTON_WIDTH

\* Mutation of press_read: the press marks the newest notification read.
press_read_and_mark(s, max) ==
    [manager |-> mark_last_as_read(s), unread |-> Ids(get_unread_buffer(s, max))]

\* The ButtonPress arm up to the callback, on the Manager: the unread
\* buffer is read and the Manager is left as it is.
press_read(s, max) == [manager |-> s, unread |-> Ids(get_unread_buffer(s, max))]

\* Mutation of on_press_arguments: the callback gets the buffer of the
\* last draw.
on_press_arguments_stale(buffer, last_drawn, bounds, width, ev) ==
    [called |-> TRUE, unread |-> last_drawn,
     clicked_idx |-> get_clicked_index(bounds, ev.y),
     invoke_action |-> invoke_action(ev.x, width), x |-> ev.x, y |-> ev.y]

\* The arguments of on_press(unread, clicked_idx, invoke_action) for the
\* press ev, with the press itself.
on_press_arguments(buffer, last_drawn, bounds, width, ev) ==
    [called |-> TRUE, unread |-> buffer,
     clicked_idx |-> get_clicked_index(bounds, ev.y),
     invoke_action |-> invoke_action(ev.x, width), x |-> ev.x, y |-> ev.y]

\* The refresh intervals and widths of the sampled configs of the loop.
LoopConfigs ==
    {ConfigOf(s[1], TRUE, s[2], [rules |-> <<>>, app_colors |-> <<>>], None) :
        s \in {<<None, 0>>, <<Some(20), POLL_INTERVAL_MS>>,
               <<Some(30), 2 * POLL_INTERVAL_MS>>,
               <<Some(31), POLL_INTERVAL_MS>>}}

\* The events the connection delivers: a press is at the left edge or at
\* the right edge of the window.
EventSamples ==
    {[type |-> "Expose", x |-> 0, y |-> 0], [type |-> "Other", x |-> 0, y |-> 0]}
    \cup [type : {"ButtonPress"}, x : {0, wrap_width_of(config) - 1},
          y : 0..MaxY]

\* The statement that handles an event of the given type.
ArmOf(type) ==
    CASE type = "Expose" -> "expose_buffer"
      [] type = "ButtonPress" -> "press_buffer"
      [] OTHER -> "next_event"

\* The variables of the Manager that the loop and the callback leave alone.
mgr_rest == <<display_limit, op, arg, ret, prev, only_enqueued, lu_seen,
              lu_marked, forbidden>>

\* The window and the draw arguments, the press and the callback.
drawn_vars == <<entry_bounds, current_width, now, frame, last_frame, drawn>>
press_vars == <<unread, presses, callbacks, callback, at_press>>


\* handle_events is entered with an empty Manager and a window not drawn
\* yet.  The wall clock stays at its first reading: what draw makes of the
\* clock is the matter of SpecDraw.
InitLoop ==
    /\ ManagerInit({0, 1})
    /\ input = NoCall
    /\ output = NoCall
    /\ HistoryIdle
    /\ config \in LoopConfigs
    /\ font_line_height = 1
    /\ entry_bounds = <<>>
    /\ current_width = 0
    /\ now = 10
    /\ shown = <<>>
    /\ unread_count = 0
    /\ frame = NoDraw
    /\ last_frame = NoDraw
    /\ drawn = <<>>
    /\ pc = "flush"
    /\ mode = "none"
    /\ event = None
    /\ unread = <<>>
    /\ elapsed = 0
    /\ events = 0
    /\ presses = 0
    /\ callbacks = 0
    /\ callback = NoCallback
    /\ at_press = <<>>
    /\ taken = NoReads
    /\ pending = <<>>

\* The ingestion context: Manager::enqueue, at any time.
Ingest ==
    /\ next_id <= MaxIngest
    /\ notifications' =
           enqueue(notifications, [id |-> next_id, is_read |-> FALSE],
                   display_limit)
    /\ next_id' = next_id + 1
    /\ UNCHANGED <<mgr_rest, pure_vars, hist_vars, win_vars, loop_vars>>

\* `self.connection.flush()?;`
LoopFlush ==
    /\ pc = "flush"
    /\ pc' \in {"decide", "returned"}
    /\ UNCHANGED <<mgr_vars, pure_vars, hist_vars, win_vars, mode, event,
                   elapsed, events, press_vars>>
    /\ UNCHANGED taken
    /\ UNCHANGED pending

\* has_unread and use_refresh: the branch of this iteration.
LoopDecide ==
    /\ pc = "decide"
    /\ IF use_refresh(config.global.refresh_interval_ms,
                      get_unread_count(notifications))
       THEN mode' = "Polling" /\ pc' = "poll"
       ELSE mode' = "Blocking" /\ pc' = "wait"
    /\ UNCHANGED <<mgr_vars, pure_vars, hist_vars, win_vars, event, elapsed,
                   events, press_vars>>
    /\ UNCHANGED taken
    /\ UNCHANGED pending

\* The connection hands the event ev to the loop.
TakeEvent(ev) ==
    /\ events < MaxEvents
    /\ events' = events + 1
    /\ event' = Some(ev)
    /\ presses' = IF ev.type = "ButtonPress" THEN presses + 1 ELSE presses
    /\ pc' = ArmOf(ev.type)

\* `self.connection.poll_for_event()?` in the polling branch: an event, no
\* event, or an error.
LoopPoll ==
    /\ pc = "poll"
    /\ \/ \E ev \in EventSamples : TakeEvent(ev)
       \/ pc' = "sleep" /\ UNCHANGED <<event, events, presses>>
       \/ pc' = "returned" /\ UNCHANGED <<event, events, presses>>
    /\ UNCHANGED <<mgr_vars, pure_vars, hist_vars, win_vars, mode, elapsed,
                   unread, callbacks, callback, at_press>>
    /\ taken' = NoReads
    /\ UNCHANGED pending

\* The sleep of POLL_INTERVAL_MS and the test of last_redraw.elapsed().
LoopSleep ==
    /\ pc = "sleep"
    /\ elapsed' = Min(elapsed + POLL_INTERVAL_MS,
                      config.global.refresh_interval_ms)
    /\ pc' = IF elapsed' >= config.global.refresh_interval_ms
             THEN "refresh_buffer" ELSE "flush"
    /\ UNCHANGED <<mgr_vars, pure_vars, hist_vars, win_vars, mode, event,
                   events, press_vars>>
    /\ UNCHANGED taken
    /\ UNCHANGED pending

\* `let notifications = manager.get_unread_buffer(display_limit);` of the
\* timed refresh and of the Expose arm.
LoopReadBuffer ==
    /\ pc \in {"refresh_buffer", "expose_buffer"}
    /\ shown' = Ids(get_unread_buffer(notifications, display_limit))
    /\ pc' = IF pc = "refresh_buffer" THEN "refresh_count" ELSE "expose_count"
    /\ UNCHANGED <<mgr_vars, pure_vars, hist_vars, config, font_line_height,
                   drawn_vars, unread_count, mode, event, elapsed, events,
                   press_vars>>
    /\ taken' = [taken EXCEPT !.buffer = Some(notifications)]
    /\ UNCHANGED pending

\* `let unread_count = manager.get_unread_count();`
LoopReadCount ==
    /\ pc \in {"refresh_count", "expose_count"}
    /\ unread_count' = get_unread_count(notifications)
    /\ pc' = IF pc = "refresh_count" THEN "refresh_draw" ELSE "expose_draw"
    /\ UNCHANGED <<mgr_vars, pure_vars, hist_vars, config, font_line_height,
                   drawn_vars, shown, mode, event, elapsed, events,
                   press_vars>>
    /\ taken' = [taken EXCEPT !.count = Some(notifications)]
    /\ UNCHANGED pending

\* Mutation of try_draw: the loop goes on after an error of draw.
try_draw_ignored(result, next) == next

\* `window.draw(..)?`: an error of draw is returned from handle_events.
try_draw(result, next) == IF result = "Err" THEN "returned" ELSE next

\* The timed refresh: draw if there is something to draw, then
\* `last_redraw = Instant::now()`.
LoopRefreshDraw ==
    /\ pc = "refresh_draw"
    /\ IF shown # <<>>
       THEN /\ \E fault \in Faults : DoDraw(now, fault)
            /\ pc' = try_draw(frame'.result, "flush")
            /\ elapsed' = IF frame'.result = "Err" THEN elapsed ELSE 0
            /\ UNCHANGED last_frame
       ELSE /\ pc' = "flush"
            /\ elapsed' = 0
            /\ UNCHANGED drawn_vars
    /\ shown' = <<>>
    /\ unread_count' = 0
    /\ UNCHANGED <<mgr_vars, pure_vars, hist_vars, config, font_line_height,
                   mode, event, events, press_vars>>
    /\ taken' = NoReads
    /\ UNCHANGED pending

\* The Expose arm: `window.draw(..)?`.
LoopExposeDraw ==
    /\ pc = "expose_draw"
    /\ \E fault \in Faults : DoDraw(now, fault)
    /\ UNCHANGED last_frame
    /\ pc' = try_draw(frame'.result, "next_event")
    /\ shown' = <<>>
    /\ unread_count' = 0
    /\ UNCHANGED <<mgr_vars, pure_vars, hist_vars, config, font_line_height,
                   mode, event, elapsed, events, press_vars>>
    /\ taken' = NoReads
    /\ UNCHANGED pending

\* `self.connection.wait_for_event()?`: blocks until there is an event.
LoopWait ==
    /\ pc = "wait"
    /\ \/ \E ev \in EventSamples : TakeEvent(ev)
       \/ pc' = "returned" /\ UNCHANGED <<event, events, presses>>
    /\ UNCHANGED <<mgr_vars, pure_vars, hist_vars, win_vars, mode, elapsed,
                   unread, callbacks, callback, at_press>>
    /\ taken' = NoReads
    /\ UNCHANGED pending

\* The ButtonPress arm: `let unread = manager.get_unread_buffer(..)`.
LoopPressRead ==
    /\ pc = "press_buffer"
    /\ \E r \in {press_read(notifications, display_limit)} :
           /\ notifications' = r.manager
           /\ unread' = r.unread
    /\ at_press' = notifications
    /\ pc' = "press_callback"
    /\ UNCHANGED <<next_id, mgr_rest, pure_vars, hist_vars, win_vars, mode,
                   event, elapsed, events, presses, callbacks, callback>>
    /\ UNCHANGED taken
    /\ UNCHANGED pending

\* The call of on_press, and what the callback does to the Manager before
\* it returns: nothing, mark_last_as_read, or a dismiss of the clicked
\* index.
LoopCallback ==
    /\ pc = "press_callback"
    /\ callback' = on_press_arguments(unread, drawn, entry_bounds,
                                      current_width, event.v)
    /\ callbacks' = callbacks + 1
    /\ \/ notifications' = notifications
       \/ notifications' = mark_last_as_read(notifications)
       \/ /\ callback'.clicked_idx.some
          /\ notifications' = dismiss(notifications, callback'.clicked_idx.v)
    /\ pc' = "next_event"
    /\ UNCHANGED <<next_id, mgr_rest, pure_vars, hist_vars, win_vars, mode,
                   event, elapsed, events, presses, unread, at_press>>
    /\ UNCHANGED taken
    /\ UNCHANGED pending

\* `event_opt = self.connection.poll_for_event()?;` at the end of the
\* dispatch loop: the next pending event, or back to the top of the loop.
LoopNextEvent ==
    /\ pc = "next_event"
    /\ \/ \E ev \in EventSamples : TakeEvent(ev)
       \/ pc' = "flush" /\ event' = None /\ UNCHANGED <<events, presses>>
       \/ pc' = "returned" /\ event' = None /\ UNCHANGED <<events, presses>>
    /\ callback' = NoCallback
    /\ unread' = <<>>
    /\ at_press' = <<>>
    /\ UNCHANGED <<mgr_vars, pure_vars, hist_vars, win_vars, mode, elapsed,
                   callbacks>>
    /\ taken' = NoReads
    /\ UNCHANGED pending

NextLoop ==
    \/ Ingest
    \/ LoopFlush
    \/ LoopDecide
    \/ LoopPoll
    \/ LoopSleep
    \/ LoopReadBuffer
    \/ LoopReadCount
    \/ LoopRefreshDraw
    \/ LoopExposeDraw
    \/ LoopWait
    \/ LoopPressRead
    \/ LoopCallback
    \/ LoopNextEvent

SpecLoop == InitLoop /\ [][NextLoop]_vars

(***************************************************************************)
(* The event loop on a connection with a queue of events, under the wall   *)
(* clock: events arrive while the loop runs, the loop takes the oldest, and *)
(* time passes between any two statements.                                 *)
(***************************************************************************)
\* The events that arrive: a press is on the top left pixel.
PendingSamples ==
    [type : {"Expose", "Other", "ButtonPress"}, x : {0}, y : {0}]

PressesIn(q) == Len(SelectSeq(q, LAMBDA ev : ev.type = "ButtonPress"))

\* `connection.poll_for_event()` without error: the oldest event of the
\* queue, if there is one.
poll_for_event(q) ==
    IF q = <<>> THEN [event |-> None, rest |-> q]
    ELSE [event |-> Some(Head(q)), rest |-> Tail(q)]

\* Mutation of the dispatch loop: `if let` for `while let`, the loop does
\* not poll again after an event.
dispatch_once(q) == [event |-> None, rest |-> q]

\* `event_opt = self.connection.poll_for_event()?;` at the end of the body
\* of `while let Some(event) = event_opt`.
dispatch_next(q) == poll_for_event(q)

\* The X server puts an event in the queue; presses are counted.
Arrive ==
    /\ pc # "returned"
    /\ Len(pending) < MaxPending
    /\ \E ev \in PendingSamples :
           /\ ev.type = "ButtonPress" =>
                  presses + PressesIn(pending) < MaxPresses
           /\ pending' = Append(pending, ev)
    /\ UNCHANGED <<mgr_vars, pure_vars, hist_vars, win_vars, pc, mode, event,
                   unread, elapsed, events, presses, callbacks, callback,
                   at_press, taken>>

\* The wall clock advances: last_redraw.elapsed() grows, whatever the loop
\* is doing.  Above the refresh interval its value makes no difference.
Tick ==
    /\ pc # "returned"
    /\ elapsed < config.global.refresh_interval_ms
    /\ elapsed' = Min(elapsed + POLL_INTERVAL_MS,
                      config.global.refresh_interval_ms)
    /\ UNCHANGED <<mgr_vars, pure_vars, hist_vars, win_vars, pc, mode, event,
                   unread, events, presses, callbacks, callback, at_press,
                   taken, pending>>

\* The loop goes on with what it polled: the arm of the event, or next.
Polled(polled, next) ==
    /\ pending' = polled.rest
    /\ IF polled.event.some
       THEN /\ event' = polled.event
            /\ presses' = IF polled.event.v.type = "ButtonPress"
                           THEN presses + 1 ELSE presses
            /\ pc' = ArmOf(polled.event.v.type)
       ELSE /\ event' = None
            /\ presses' = presses
            /\ pc' = next

\* poll_for_event at the top of the polling branch.
QueuedPoll ==
    /\ pc = "poll"
    /\ \/ Polled(poll_for_event(pending), "sleep")
       \/ pc' = "returned" /\ UNCHANGED <<event, presses, pending>>
    /\ taken' = NoReads
    /\ UNCHANGED <<mgr_vars, pure_vars, hist_vars, win_vars, mode, elapsed,
                   events, unread, callbacks, callback, at_press>>

\* wait_for_event: returns once the queue has an event.
QueuedWait ==
    /\ pc = "wait"
    /\ \/ pending # <<>> /\ Polled(poll_for_event(pending), "wait")
       \/ pc' = "returned" /\ UNCHANGED <<event, presses, pending>>
    /\ taken' = NoReads
    /\ UNCHANGED <<mgr_vars, pure_vars, hist_vars, win_vars, mode, elapsed,
                   events, unread, callbacks, callback, at_press>>

\* The end of the body of the dispatch loop, in both branches.
QueuedNextEvent ==
    /\ pc = "next_event"
    /\ \/ Polled(dispatch_next(pending), "flush")
       \/ pc' = "returned" /\ event' = None /\ UNCHANGED <<presses, pending>>
    /\ callback' = NoCallback
    /\ unread' = <<>>
    /\ at_press' = <<>>
    /\ taken' = NoReads
    /\ UNCHANGED <<mgr_vars, pure_vars, hist_vars, win_vars, mode, elapsed,
                   events, callbacks>>

\* handle_events is entered with refresh off, or with a refresh interval
\* of two polls, and a display limit of one notification.
InitQueued ==
    /\ InitLoop
    /\ display_limit = 1
    /\ config.global.refresh_interval_ms \in {0, 2 * POLL_INTERVAL_MS}

\* A statement of handle_events other than a call of draw.
QueuedStatement ==
    \/ LoopFlush
    \/ LoopDecide
    \/ QueuedPoll
    \/ LoopSleep
    \/ LoopReadBuffer
    \/ LoopReadCount
    \/ QueuedWait
    \/ LoopPressRead
    \/ LoopCallback
    \/ QueuedNextEvent

NextQueued ==
    \/ Ingest
    \/ Arrive
    \/ Tick
    \/ QueuedStatement
    \/ LoopRefreshDraw
    \/ LoopExposeDraw

\* A call of draw by the loop returns.
DrawReturns ==
    /\ pc \in {"refresh_draw", "expose_draw"}
    /\ pc' \in {"flush", "next_event", "returned"}

\* The thread of handle_events keeps running: it stops only in
\* wait_for_event, while the queue is empty, and when it has returned.
SpecQueued ==
    /\ InitQueued
    /\ [][NextQueued]_vars
    /\ WF_vars(QueuedStatement)
    /\ WF_pc(DrawReturns)

(***************************************************************************)
(* Claims about draw.                                                      *)
(***************************************************************************)
\* What the layout of a frame consists of: per entry the markup, the
\* height and the resolved background, and the click bounds.
LayoutOf(f) ==
    [blocks |-> [k \in 1..Len(f.entries) |->
                    <<f.entries[k].markup, f.entries[k].height,
                      f.entries[k].bg_color>>],
     bounds |-> f.entry_bounds]

\* Two draws in a row painted the same notifications with the same
\* config, hence at the same width.
TwoDraws == frame.painted /\ last_frame.painted

EntryRows(es, k) ==
    LET from == SumHeights(SubSeq(es, 1, k - 1))
    IN  from..(from + es[k].height - 1)

\* The rows of a bound.
BoundRows(b) == {y \in b.y_start..(b.y_end - 1) : TRUE}

\* C14: after a successful draw of one or more notifications no two click
\* bounds overlap, so that a row of [0, total_height) is in at most one
\* bound; the rows in no bound are those of the separators and of the
\* footer; total_height is the sum of the block heights.
C14_BoundsPartitionRows ==
    (frame.painted /\ shown # <<>>) =>
        LET es == frame.entries
            bs == entry_bounds
            rows == 0..(frame.total_height - 1)
            gaps == UNION {EntryRows(es, k) :
                              k \in {j \in 1..Len(es) :
                                        \/ es[j].is_separator
                                        \/ es[j].original_index = None}}
        IN  /\ \A i, j \in 1..Len(bs) :
                   i # j => BoundRows(bs[i]) \cap BoundRows(bs[j]) = {}
            /\ \A y \in rows :
                   Cardinality({i \in 1..Len(bs) : y \in BoundRows(bs[i])}) <= 1
            /\ {y \in rows : \A i \in 1..Len(bs) : y \notin BoundRows(bs[i])}
                   = gaps
            /\ frame.total_height = SumHeights(es)

\* C14 witness: three notifications, two separators and a footer.
C14_Witness ==
    /\ frame.painted
    /\ Len(shown) = 3
    /\ Len(frame.entries) = 6
    /\ font_line_height = 2
    /\ Len(entry_bounds) = 3

\* The notification has not expired at time t: its expire_timeout is
\* absent (it never expires) or timestamp + expire_timeout >= t.
NotExpired(notification, t) ==
    \/ notification.expire_timeout = None
    \/ notification.timestamp + notification.expire_timeout.v >= t

\* The commands a draw of the shown notifications at time t is to invoke.
CommandsDue(t) ==
    UNION {LET n == Notification(shown[k])
               cs == get_urgency_config(config, n.urgency).custom_commands
           IN  IF cs = None THEN {}
               ELSE {<<n.id, cs.v[i].name>> :
                        i \in {j \in 1..Len(cs.v) :
                                  /\ \/ cs.v[j].filter = None
                                     \/ cs.v[j].filter.v \in n.passes
                                  /\ NotExpired(n, t)}}
           : k \in 1..Len(shown)}

\* C19: a draw invokes, for each notification it displays, exactly the
\* commands whose filter is absent or matches, if the notification has
\* not expired at render time; this at every draw anew.
C19_CommandsDueAreRun ==
    frame.painted =>
        {frame.spawned[k] : k \in 1..Len(frame.spawned)}
            = CommandsDue(frame.now)

(***************************************************************************)
(* Claims about the event loop.                                            *)
(***************************************************************************)
\* on_press has just been called for a press on a notification row.
PressedOnRow == callback.called /\ callback.clicked_idx # None

\* A press at the right edge does not invoke, one at the left edge does.
EdgesDecide ==
    /\ callback.x = current_width - 1 => ~callback.invoke_action
    /\ callback.x = 0 => callback.invoke_action

C16_BlocksOrPolls ==
    /\ [][(pc = "decide" /\ pc' # "decide") =>
            LET n == get_unread_count(notifications)
                interval == config.global.refresh_interval_ms
            IN  /\ pc' = "wait" <=> (n = 0 \/ interval = 0)
                /\ pc' = "poll" <=> (n > 0 /\ interval > 0)]_vars
    /\ [](pc \in {"refresh_buffer", "refresh_count", "refresh_draw"}
            => mode = "Polling")
    /\ [](pc \in {"expose_buffer", "expose_count", "expose_draw"}
            => event # None /\ event.v.type = "Expose")

\* C16 witness: the loop blocks with an unread notification, the refresh
\* interval being 0.
C16_Witness ==
    /\ pc = "wait"
    /\ mode = "Blocking"
    /\ get_unread_count(notifications) > 0
    /\ config.global.refresh_interval_ms = 0

\* The bound that holds row y, if there is one.
ClickMatch(bounds, y) ==
    LET hit == {k \in 1..Len(bounds) :
                   y \in bounds[k].y_start..(bounds[k].y_end - 1)}
    IN  IF hit = {} THEN None ELSE Some(bounds[CHOOSE k \in hit : TRUE].idx)

\* C17: every press taken by the loop, blocking or polling, leads to one
\* call of on_press before the next event is taken, with the unread buffer
\* read for this press, the index of the bound that holds the press's y
\* (none when no bound holds it) and the invoke flag.
C17_OneCallbackPerPress ==
    /\ callbacks =
           presses - (IF pc \in {"press_buffer", "press_callback"} THEN 1 ELSE 0)
    /\ callback.called =>
           /\ callback.unread = Ids(get_unread_buffer(at_press, display_limit))
           /\ callback.clicked_idx = ClickMatch(entry_bounds, callback.y)
           /\ callback.invoke_action
                  <=> callback.x < current_width - CLOSE_BUTTON_WIDTH
           /\ callback.x = event.v.x /\ callback.y = event.v.y

\* C17 witness: in the polling branch on_press is called for a press on a
\* separator row, with no index and the buffer of two notifications.
C17_Witness ==
    /\ callback.called
    /\ mode = "Polling"
    /\ callback.clicked_idx = None
    /\ Len(callback.unread) = 2
    /\ Len(entry_bounds) = 2
    /\ callback.y < entry_bounds[2].y_start

\* C18: a step changes the Manager's notifications or their read status
\* only if it is the call of the press callback or an enqueue of the
\* ingestion context.
C18_LoopLeavesManager ==
    [][notifications' # notifications =>
          (pc = "press_callback" \/ next_id' # next_id)]_vars

\* C18 witness: the press arm has read the buffer of an unread
\* notification, and the Manager is as it was.
C18_Witness ==
    /\ pc = "press_callback"
    /\ Len(unread) > 0
    /\ notifications = at_press

(***************************************************************************)
(* Claims about the queries on the history.                                *)
(***************************************************************************)
RecentReturned == output.fn = "recent"

AllReturned == output.fn = "all"

\* C21: recent(count) returns exactly min(count, len()) entries, newest
\* first: element k (from 0) is the (k+1)-th most recently added entry;
\* all() returns every entry, oldest first, so that recent(len()) is the
\* reverse of all().
C21_RecentNewestFirst ==
    /\ RecentReturned =>
          /\ Len(output.result) = Min(input.count, history_len(entries))
          /\ \A k \in 0..(Len(output.result) - 1) :
                output.result[k + 1] = stored[Len(stored) - k]
          /\ input.count = history_len(entries) =>
                output.result = Reverse(history_all(entries))
    /\ AllReturned =>
          output.result = LastK(stored, history_len(entries))

\* C21 witness: recent(2) on a history of three entries returns the two
\* added last, the newest first.
C21_Witness ==
    /\ RecentReturned
    /\ input.count = 2
    /\ entries = <<2, 3, 4>>
    /\ output.result = <<4, 3>>

SearchReturned == output.fn = "search"

\* The query occurs in the text, letter case disregarded.
ContainsIgnoringCase(text, query) ==
    \E i \in 0..(Len(text) - Len(query)) :
        \A k \in 1..Len(query) :
            LowerChar(text[i + k]) = LowerChar(query[k])

\* The entry has the query in its app name, summary or body.
Found(id, query) ==
    \/ ContainsIgnoringCase(HistoryEntry(id).app_name, query)
    \/ ContainsIgnoringCase(HistoryEntry(id).summary, query)
    \/ ContainsIgnoringCase(HistoryEntry(id).body, query)

\* s is t with some elements left out, the others in the order of t.
RECURSIVE IsSubsequence(_, _)
IsSubsequence(s, t) ==
    IF s = <<>> THEN TRUE
    ELSE IF t = <<>> THEN FALSE
    ELSE IF Head(s) = Head(t) THEN IsSubsequence(Tail(s), Tail(t))
    ELSE IsSubsequence(s, Tail(t))

\* The result of search is the found entries, in stored order.
SearchFinds ==
    SearchReturned =>
        /\ IsSubsequence(output.result, entries)
        /\ \A k \in 1..Len(entries) :
              Found(entries[k], input.query) <=>
                  \E j \in 1..Len(output.result) :
                      output.result[j] = entries[k]

\* A query leaves the entries, the limit and the file as they are.
QueryLeavesHistory == input' # NoCall => UNCHANGED hist_vars

\* C22: search(query) returns, in stored (oldest first) order, exactly the
\* entries whose app_name, summary or body contains the query as a
\* case-insensitive substring, and does not modify the history.
C22_SearchFindsExactly == [](SearchFinds) /\ [][QueryLeavesHistory]_vars

\* C22 witness: of three entries, the search for "B" returns the first and
\* the last, which hold a "b" and a "B"; the one in between has no text.
C22_Witness ==
    /\ SearchReturned
    /\ input.query = <<"B">>
    /\ entries = <<1, 2, 3>>
    /\ output.result = <<1, 3>>
(***************************************************************************)
(* Claims about markup escaping.                                           *)
(***************************************************************************)
EscapeReturned == output.fn = "escape_markup"

\* The entity of a reserved character.
EntityOf(c) ==
    CASE c = "&" -> <<"&", "a", "m", "p", ";">>
      [] c = "<" -> <<"&", "l", "t", ";">>
      [] c = ">" -> <<"&", "g", "t", ";">>
      [] c = "\"" -> <<"&", "q", "u", "o", "t", ";">>
      [] c = "'" -> <<"&", "#", "3", "9", ";">>

Reserved == {"&", "<", ">", "\"", "'"}

\* The text with each reserved character replaced once by its entity.
RECURSIVE EscapedOnce(_)
EscapedOnce(s) ==
    IF s = <<>> THEN <<>>
    ELSE (IF Head(s) \in Reserved THEN EntityOf(Head(s)) ELSE <<Head(s)>>)
         \o EscapedOnce(Tail(s))

\* An entity starts at position k of t.
EntityAt(t, k) ==
    \E c \in Reserved :
        /\ k + Len(EntityOf(c)) - 1 <= Len(t)
        /\ SubSeq(t, k, k + Len(EntityOf(c)) - 1) = EntityOf(c)

\* No character of t is a raw < > " or ', and every & starts an entity.
NoRawReserved(t) ==
    \A k \in 1..Len(t) :
        /\ t[k] \notin (Reserved \ {"&"})
        /\ t[k] = "&" => EntityAt(t, k)

\* C23: escaping replaces each of & < > " ' by its entity, once: the
\* escaped text has no raw < > " ' and every & in it starts an entity, a
\* text without reserved characters is unchanged, and the markup that
\* embeds the escaped app name, summary and body has no raw reserved
\* character either.
C23_EscapesReservedOnce ==
    EscapeReturned =>
        /\ output.result = EscapedOnce(input.text)
        /\ NoRawReserved(output.result)
        /\ (\A k \in 1..Len(input.text) : input.text[k] \notin Reserved)
               => output.result = input.text
        /\ NoRawReserved(output.markup)

\* C23 witness: "<&" in the summary is escaped to "&lt;&amp;".
C23_Witness ==
    /\ EscapeReturned
    /\ input.field = "summary"
    /\ input.text = <<"<", "&">>
    /\ output.result = <<"&", "l", "t", ";", "&", "a", "m", "p", ";">>
(***************************************************************************)
(* Claims about the arguments the loop gives to on_press and to draw.      *)
(***************************************************************************)
\* on_press has just been called with a matched index.
PressMatched == callback.called /\ callback.clicked_idx.some

\* C24: whenever on_press is called with a matched index i, i is a valid
\* index into the unread snapshot of the same call and snapshot[i] is the
\* notification drawn at the clicked row in the most recent draw.
C24_IndexIsTheDrawnRow ==
    PressMatched =>
        /\ callback.clicked_idx.v < Len(callback.unread)
        /\ callback.unread[callback.clicked_idx.v + 1]
               = drawn[callback.clicked_idx.v + 1]
\* The loop is about to call draw with the arguments shown and
\* unread_count: the timed refresh calls it for a buffer that is not empty.
DrawIssued ==
    \/ pc = "expose_draw"
    \/ pc = "refresh_draw" /\ shown # <<>>

\* C27: on every draw issued by the loop, unread_count is the Manager's
\* unread count in the Manager state the displayed buffer was taken from,
\* so that the number of the footer is the number of unread notifications
\* not displayed.
C27_CountOfTheBufferState ==
    DrawIssued => unread_count = get_unread_count(taken.buffer.v)
(***************************************************************************)
(* Claims about the timed refresh and the dispatch of events.              *)
(***************************************************************************)
\* The timed redraw is made only when the refresh interval has elapsed
\* since last_redraw was set, in a polling iteration.
TimedRedrawsApart ==
    pc \in {"refresh_buffer", "refresh_count", "refresh_draw"} =>
        /\ mode = "Polling"
        /\ elapsed >= config.global.refresh_interval_ms

\* The loop is in a polling iteration and the refresh interval has elapsed
\* since the last timed redraw.
RedrawDue ==
    /\ mode = "Polling"
    /\ pc # "returned"
    /\ elapsed >= config.global.refresh_interval_ms

\* The timed redraw has been made (last_redraw is set anew), or the loop
\* has left the Polling state or has returned an error.
RedrawMade ==
    \/ elapsed < config.global.refresh_interval_ms
    \/ mode # "Polling"
    \/ pc = "returned"

\* C25: in Polling state a redraw eventually happens once the refresh
\* interval has elapsed since the last redraw, and two timed redraws are
\* never closer together than the interval, also when input events keep
\* arriving and when Expose events cause redraws in between.
C25_TimedRedrawHappens == [](TimedRedrawsApart) /\ (RedrawDue ~> RedrawMade)

\* The loop is about to call draw in the Expose arm: both arguments were
\* read from the Manager since the event was received.
ExposeArguments ==
    pc = "expose_draw" =>
        /\ taken.buffer.some
        /\ taken.count.some
        /\ shown = Ids(get_unread_buffer(taken.buffer.v, display_limit))
        /\ unread_count = get_unread_count(taken.count.v)

\* An event that leaves the queue is the oldest one, and it is handled
\* next; the loop goes from the end of the body of the dispatch loop back
\* to its top only when the queue is empty.
DispatchInOrder ==
    /\ Len(pending') < Len(pending) =>
           /\ event' = Some(Head(pending))
           /\ pending' = Tail(pending)
           /\ pc' = ArmOf(Head(pending).type)
    /\ (pc = "next_event" /\ pc' = "flush") => pending = <<>>

ExposeTaken == pc = "expose_buffer"

\* draw has been called for the Expose event.
ExposeDrawn ==
    /\ pc \in {"next_event", "returned"}
    /\ frame.result \in {"Ok", "Err"}

\* C26: every Expose event, in the blocking and in the polling branch,
\* leads to a draw of the unread buffer and the unread count read from the
\* Manager after the event was received; the events pending after the
\* first are dispatched in arrival order before the loop decides again
\* between blocking and polling.
C26_ExposeDraws ==
    /\ [](ExposeArguments)
    /\ [][DispatchInOrder]_vars
    /\ (ExposeTaken ~> ExposeDrawn)

\* C26 witness: in a polling iteration the draw for an Expose event has
\* returned and two more events are in the queue.
C26_Witness ==
    /\ pc = "next_event"
    /\ mode = "Polling"
    /\ event.some
    /\ event.v.type = "Expose"
    /\ frame.result = "Ok"
    /\ frame.painted
    /\ Len(pending) = 2
(***************************************************************************)
(* Claims about the blocks of a draw and their click bounds.               *)
(***************************************************************************)
\* draw has painted the list `shown` of one or more notifications.
Painted == frame.painted /\ shown # <<>>

NotificationBlock(e) == ~e.is_separator /\ e.original_index.some

FooterBlock(e) == ~e.is_separator /\ ~e.original_index.some

\* C28: a draw of n >= 1 notifications makes n notification blocks and
\* n - 1 separator blocks of height 2, alternating, from a notification
\* block to a notification block: no separator before the first or after
\* the last, and none before the footer.
C28_BlocksAlternate ==
    Painted =>
        LET n == Len(shown)
            es == frame.entries
        IN  /\ Cardinality({k \in 1..Len(es) : NotificationBlock(es[k])}) = n
            /\ Cardinality({k \in 1..Len(es) : es[k].is_separator}) = n - 1
            /\ NotificationBlock(es[1])
            /\ \A k \in 1..Len(es) :
                   es[k].is_separator =>
                       /\ es[k].height = 2
                       /\ ~es[k].original_index.some
                       /\ k > 1 /\ k < Len(es)
                       /\ NotificationBlock(es[k - 1])
                       /\ NotificationBlock(es[k + 1])
            /\ \A k \in 1..(Len(es) - 1) :
                   NotificationBlock(es[k]) =>
                       es[k + 1].is_separator \/ FooterBlock(es[k + 1])
            /\ \A k \in 1..(Len(es) - 1) : ~FooterBlock(es[k])

\* C28 witness: three notifications and no footer make five blocks.
C28_Witness ==
    /\ Painted
    /\ Len(shown) = 3
    /\ unread_count = 3
    /\ Len(frame.entries) = 5
    /\ frame.entries[2].is_separator
    /\ frame.entries[4].is_separator

\* C29: the footer "... and {overflow} more", overflow being unread_count
\* less the number displayed, is the last block iff unread_count is above
\* the number displayed; no click bound covers it; at an unread_count not
\* above the number displayed there is no footer, hence no difference.
C29_FooterIffMore ==
    Painted =>
        LET n == Len(shown)
            es == frame.entries
            last == es[Len(es)]
        IN  /\ FooterBlock(last) <=> unread_count > n
            /\ \A k \in 1..(Len(es) - 1) : ~FooterBlock(es[k])
            /\ FooterBlock(last) =>
                   /\ last.markup =
                          <<"<span foreground=\"#888888\"><i>... and ">>
                          \o Digits(unread_count - n)
                          \o <<" more</i></span>">>
                   /\ \A i \in 1..Len(entry_bounds) :
                          BoundRows(entry_bounds[i])
                              \cap EntryRows(es, Len(es)) = {}
            /\ Len(entry_bounds) = n

\* C29 witness: two notifications displayed of three unread, and the
\* footer "... and 1 more".
C29_Witness ==
    /\ Painted
    /\ Len(shown) = 2
    /\ unread_count = 3
    /\ Len(frame.entries) = 4
    /\ frame.entries[4].markup[2] = "1"
    /\ Len(entry_bounds) = 2

\* C30: after a successful draw of n notifications the click bounds are n
\* triples, top to bottom, with strictly increasing y ranges; the k-th row
\* from the top (k = 0..n-1) has original index n - 1 - k, the newest
\* notification is the top row, and a press on a row resolves to the
\* position in the input list of the notification drawn there.
C30_RowsNewestFirst ==
    Painted =>
        LET n == Len(shown)
            es == frame.entries
            bs == entry_bounds
        IN  /\ Len(bs) = n
            /\ \A k \in 0..(n - 1) :
                   /\ bs[k + 1].idx = n - 1 - k
                   /\ bs[k + 1].y_start < bs[k + 1].y_end
                   /\ k > 0 => bs[k].y_end <= bs[k + 1].y_start
                   /\ BoundRows(bs[k + 1]) = EntryRows(es, 2 * k + 1)
                   /\ es[2 * k + 1].markup =
                          notification_markup(
                              Notification(shown[bs[k + 1].idx + 1]), frame.now)
                   /\ \A y \in BoundRows(bs[k + 1]) :
                          get_clicked_index(bs, y) = Some(bs[k + 1].idx)
            /\ es[1].markup =
                   notification_markup(Notification(shown[n]), frame.now)

\* C30 witness: of the list 1, 2, 3 the top row is notification 3, with
\* original index 2, and the bottom row notification 1, with index 0.
C30_Witness ==
    /\ Painted
    /\ shown = <<1, 2, 3>>
    /\ font_line_height = 2
    /\ entry_bounds[1].idx = 2
    /\ entry_bounds[3].idx = 0
    /\ entry_bounds[1].y_start = 0

(***************************************************************************)
(* C31: the draw of an empty list.                                         *)
(***************************************************************************)
\* The Expose arm is about to call draw with an empty list; the loop is
\* past the call when pc changes.
EmptyDraw == pc = "expose_draw" /\ shown = <<>>

\* C31: a draw called with an empty list returns Ok, runs no command, issues
\* no resize, paint, store of the bounds or flush, and leaves the click
\* bounds and the stored width as they were.
C31_EmptyDrawIsNoOp ==
    [][EmptyDraw /\ pc' # pc =>
          /\ frame'.result = "Ok"
          /\ ~frame'.painted
          /\ frame'.spawned = <<>>
          /\ frame'.steps = <<>>
          /\ frame'.geometry = None
          /\ entry_bounds' = entry_bounds
          /\ current_width' = current_width
          /\ pc' = "next_event"]_vars

\* An empty draw has returned on a window that keeps the bounds of an
\* earlier frame.
C31_Witness ==
    /\ frame.result = "Ok"
    /\ frame.steps = <<>>
    /\ entry_bounds # <<>>
    /\ current_width > 0
    /\ pc = "next_event"

(***************************************************************************)
(* C32: notifications without expire_timeout.                              *)
(***************************************************************************)
\* The commands of the urgency of notification n whose filter is absent or
\* matches n.
PassingCommands(n) ==
    LET cs == get_urgency_config(config, n.urgency).custom_commands
    IN  IF cs = None THEN {}
        ELSE {cs.v[j].name :
                 j \in {i \in 1..Len(cs.v) :
                           \/ cs.v[i].filter = None
                           \/ cs.v[i].filter.v \in n.passes}}

\* C32: a notification whose expire_timeout is absent never expires: at
\* every draw, however long after its timestamp, each of its commands whose
\* filter is absent or matches is run.
C32_AbsentTimeoutNeverExpires ==
    frame.painted =>
        \A k \in 1..Len(shown) :
            Notification(shown[k]).expire_timeout = None =>
                \A name \in PassingCommands(Notification(shown[k])) :
                    \E i \in 1..Len(frame.spawned) :
                        frame.spawned[i] = <<shown[k], name>>

(***************************************************************************)
(* C33: the order of the steps of a draw.                                  *)
(***************************************************************************)
\* The place of a step in the order of the claim (the store of the width,
\* which the claim does not name, comes after the commands).
StepRank(step) ==
    CASE step[1] = "run_commands" -> 1
      [] step[1] = "store_width" -> 2
      [] step[1] = "configure_window" -> 3
      [] step[1] = "set_size" -> 4
      [] step[1] = "paint" -> 5
      [] step[1] = "block" -> 6
      [] step[1] = "store_bounds" -> 7
      [] step[1] = "flush" -> 8

\* The steps of the last draw with the given name.
StepsNamed(name) == SelectSeq(frame.steps, LAMBDA step : step[1] = name)

\* draw has returned Ok after painting.
DrawSucceeded == frame.result = "Ok" /\ frame.painted

\* C33: within a successful draw the commands of all displayed notifications
\* come first, then, only with wrap_content, the resize of the window and
\* then of the surface, then the background fill, then the blocks from the
\* top down, then the store of the click bounds, then the flush; without
\* wrap_content no resize is issued.
C33_StepsInOrder ==
    DrawSucceeded =>
        /\ \A i, j \in 1..Len(frame.steps) :
               i < j => StepRank(frame.steps[i]) <= StepRank(frame.steps[j])
        /\ StepsNamed("run_commands")
               = [k \in 1..Len(shown) |->
                     <<"run_commands", shown[Len(shown) + 1 - k]>>]
        /\ Len(StepsNamed("configure_window"))
               = (IF config.global.wrap_content THEN 1 ELSE 0)
        /\ Len(StepsNamed("set_size"))
               = (IF config.global.wrap_content THEN 1 ELSE 0)
        /\ Len(StepsNamed("paint")) = 1
        /\ StepsNamed("block")
               = [k \in 1..Len(frame.entries) |-> <<"block", k>>]
        /\ Len(StepsNamed("store_bounds")) = 1
        /\ Len(StepsNamed("flush")) = 1

\* A successful draw of three notifications that ran commands and resized
\* the window.
C33_Witness ==
    /\ DrawSucceeded
    /\ config.global.wrap_content
    /\ Len(shown) = 3
    /\ frame.spawned # <<>>
    /\ Len(frame.steps) = 3 + 1 + 2 + 1 + Len(frame.entries) + 2

(***************************************************************************)
(* C34: the return of handle_events.                                       *)
(***************************************************************************)
\* The statements of the loop that are a fallible call: flush, the two
\* poll_for_event, wait_for_event and the two draws.
FallibleCalls ==
    {"flush", "poll", "next_event", "wait", "refresh_draw", "expose_draw"}

\* handle_events returns in this step.
Returns == pc # "returned" /\ pc' = "returned"

\* handle_events returns only from a fallible call, from a draw only when
\* the draw returned an error, and without a call of on_press.
ReturnsOnlyOnFailure ==
    Returns => /\ pc \in FallibleCalls
               /\ pc \in {"refresh_draw", "expose_draw"} =>
                      frame'.result = "Err"
               /\ UNCHANGED callbacks

\* An error of draw is returned.
DrawFailureReturns ==
    /\ pc \in {"refresh_draw", "expose_draw"}
    /\ pc' # pc
    /\ frame'.result = "Err"
    => pc' = "returned"

\* After the return nothing of the loop runs: no call is made again, no
\* draw, no callback.
NothingAfterReturn ==
    pc = "returned" => UNCHANGED <<loop_vars, win_vars>>

\* C34: handle_events returns only when a flush, poll, wait or draw fails,
\* does not repeat the failed call, and does not call on_press afterwards.
C34_ReturnsOnlyWithError ==
    [][ReturnsOnlyOnFailure /\ DrawFailureReturns /\ NothingAfterReturn]_vars

\* handle_events has returned the error of a draw, after a call of on_press.
C34_Witness ==
    /\ pc = "returned"
    /\ frame.result = "Err"
    /\ callbacks > 0

(***************************************************************************)
(* X11Window::draw statement by statement, with another holder of the      *)
(* Arc<X11Window> that calls get_clicked_index at any time.  `input` is    *)
(* the call of draw in progress with its locals, `output` the last return  *)
(* of get_clicked_index.                                                   *)
(***************************************************************************)
\* Mutation of push_bound: the bound is pushed on the stored index too.
push_bound_shared(stored_bounds, local, bound) ==
    [stored |-> Append(stored_bounds, bound), local |-> Append(local, bound)]

\* `new_bounds.push((y_start, y_end, original_idx));`: new_bounds is a
\* local of draw, the stored index is not touched.
push_bound(stored_bounds, local, bound) ==
    [stored |-> stored_bounds, local |-> Append(local, bound)]

\* A window before its first draw, with a configuration without styles and
\* commands and a font of line height 1.
InitBounds ==
    /\ InitDraw
    /\ config.rules = <<>>
    /\ config.app_colors = <<>>
    /\ font_line_height = 1
    /\ shown = <<>>
    /\ unread_count = 0

\* draw is called with a non-empty list; the call that will fail, if any,
\* is chosen here.  `frame` is the return of the last draw, none while a
\* draw is in progress.
BoundsBegin ==
    /\ input = NoCall
    /\ \E list \in {[k \in 1..n |-> k] : n \in 1..MaxShown}, more \in {0, 1},
          fault \in Faults \cup {"fill"} :
          /\ shown' = list
          /\ unread_count' = Len(list) + more
          /\ input' =
                 [fn |-> "draw",
                  frame |-> draw(entry_bounds, current_width,
                                 Notifications(list), Len(list) + more,
                                 config, now, font_line_height, fault),
                  entries |-> draw(entry_bounds, current_width,
                                   Notifications(list), Len(list) + more,
                                   config, now, font_line_height,
                                   "none").entries,
                  at |-> 0, y_pos |-> 0, new_bounds |-> <<>>,
                  previous |-> entry_bounds]
    /\ output' = NoCall
    /\ frame' = NoDraw
    /\ UNCHANGED <<mgr_vars, hist_vars, loop_vars, config, font_line_height,
                   entry_bounds, current_width, now, last_frame, drawn>>

\* The block of entry e at y_pos in the second loop of draw: its bound is
\* pushed if it has an original index.
draw_block(stored_bounds, local, e, y_pos) ==
    IF e.original_index.some
    THEN push_bound(stored_bounds, local,
                    [y_start |-> y_pos, y_end |-> y_pos + e.height,
                     idx |-> e.original_index.v])
    ELSE [stored |-> stored_bounds, local |-> local]

\* The next step of the draw in progress.
BoundsStep ==
    /\ input.fn = "draw"
    /\ input.at < Len(input.frame.steps)
    /\ \E step \in {input.frame.steps[input.at + 1]} :
          CASE step[1] = "block" ->
                   \E b \in {draw_block(entry_bounds, input.new_bounds,
                                        input.entries[step[2]], input.y_pos)} :
                       /\ input' = [input EXCEPT
                                        !.at = @ + 1,
                                        !.y_pos = @ + input.entries[step[2]].height,
                                        !.new_bounds = b.local]
                       /\ entry_bounds' = b.stored
                       /\ UNCHANGED current_width
            [] step[1] = "store_bounds" ->
                   /\ entry_bounds' = store_bounds(entry_bounds,
                                                   input.new_bounds)
                   /\ input' = [input EXCEPT !.at = @ + 1]
                   /\ UNCHANGED current_width
            [] step[1] = "store_width" ->
                   /\ current_width' = wrap_width_of(config)
                   /\ input' = [input EXCEPT !.at = @ + 1]
                   /\ UNCHANGED entry_bounds
            [] OTHER ->
                   /\ input' = [input EXCEPT !.at = @ + 1]
                   /\ UNCHANGED <<entry_bounds, current_width>>
    /\ UNCHANGED <<mgr_vars, hist_vars, loop_vars, config, font_line_height,
                   shown, unread_count, now, frame, last_frame, drawn, output>>

\* draw returns: Ok(()) after the flush, or the error of the failed call.
BoundsReturn ==
    /\ input.fn = "draw"
    /\ input.at = Len(input.frame.steps)
    /\ frame' = [input.frame EXCEPT !.entry_bounds = entry_bounds,
                                    !.current_width = current_width]
    /\ drawn' = IF input.frame.painted THEN shown ELSE drawn
    /\ input' = NoCall
    /\ UNCHANGED <<mgr_vars, hist_vars, loop_vars, config, font_line_height,
                   shown, unread_count, now, entry_bounds, current_width,
                   last_frame, output>>

\* The draw d is past its store of the bounds.
Stored(d) ==
    \E i \in 1..d.at : d.frame.steps[i][1] = "store_bounds"

\* X11Window::get_clicked_index on another thread: the whole list is read
\* under the lock, here for a press on the top row.  The return records
\* the list read and the draw that was in progress.
BoundsRead ==
    /\ output = NoCall
    /\ output' = [fn |-> "get_clicked_index", y |-> 0,
                  seen |-> entry_bounds,
                  result |-> get_clicked_index(entry_bounds, 0),
                  during |-> IF input.fn = "draw"
                             THEN [fn |-> "draw",
                                   stored |-> Stored(input),
                                   new_bounds |-> input.new_bounds,
                                   entries |-> input.entries,
                                   previous |-> input.previous]
                             ELSE NoCall]
    /\ UNCHANGED <<mgr_vars, hist_vars, win_vars, loop_vars, input>>

NextBounds ==
    \/ BoundsBegin
    \/ BoundsStep
    \/ BoundsReturn
    \/ BoundsRead

SpecBounds == InitBounds /\ [][NextBounds]_vars

(***************************************************************************)
(* C35: the replacement of the click bounds.                               *)
(***************************************************************************)
\* The index a successful draw of the entries stores.
NewIndex(es) == new_bounds(es, 0)

\* A get_clicked_index during a draw has read the whole index of before
\* the draw, or, once the draw is past its store, the whole new index.
ReadsWholeIndex ==
    output.fn = "get_clicked_index" /\ output.during.fn = "draw" =>
        /\ output.seen = IF output.during.stored
                         THEN NewIndex(output.during.entries)
                         ELSE output.during.previous
        /\ output.result = get_clicked_index(output.seen, output.y)

\* The stored index changes only in the store step of a draw, and a draw
\* returns with the new index stored if it succeeded and with the previous
\* one if it failed.
ReplacedAtTheEnd ==
    /\ entry_bounds' # entry_bounds =>
           /\ input.fn = "draw"
           /\ input.at < Len(input.frame.steps)
           /\ input.frame.steps[input.at + 1][1] = "store_bounds"
           /\ entry_bounds' = NewIndex(input.entries)
    /\ input.fn = "draw" /\ input'.fn = "none" =>
           entry_bounds' = IF frame'.result = "Ok"
                           THEN NewIndex(input.entries)
                           ELSE input.previous

\* C35: the click bounds are built completely in a local list and stored
\* in one step at the end of a successful draw; a concurrent
\* get_clicked_index reads the whole previous or the whole new index, and
\* a draw that fails leaves the previous index in place.
C35_BoundsReplacedWholesale ==
    []ReadsWholeIndex /\ [][ReplacedAtTheEnd]_vars

\* A draw that pushed a bound and then failed has returned; the read made
\* in between saw the whole index of the earlier frame, which differs from
\* the one under construction and is still in place.
C35_Witness ==
    /\ input = NoCall
    /\ frame.result = "Err"
    /\ output.fn = "get_clicked_index"
    /\ output.during.fn = "draw"
    /\ output.during.new_bounds # <<>>
    /\ output.seen # <<>>
    /\ output.seen # NewIndex(output.during.entries)
    /\ entry_bounds = output.seen
    /\ output.result # None

(***************************************************************************)
(* One draw under configurations with up to MaxRules style rules, with     *)
(* and without background, and an app color or none.                       *)
(***************************************************************************)
\* Config::rules: rules for every application or for those named b*, with
\* one of two backgrounds or none.
BgRules ==
    [app_name : {None, Some(<<"b", Star>>)}, summary : {None}, body : {None},
     background : {None, Some("#111111"), Some("#222222")}]

\* Config::app_colors
BgAppColors ==
    {<<>>, <<[key |-> <<"b">>, value |-> "#0000bb"]>>,
     <<[key |-> <<Star>>, value |-> "#aaaaaa"]>>}

BgConfigs ==
    {ConfigOf(None, TRUE, default_refresh_interval,
              [rules |-> rules, app_colors |-> colors], None) :
        rules \in UNION {[1..k -> BgRules] : k \in 0..MaxRules},
        colors \in BgAppColors}

InitBg ==
    /\ ManagerInit({0})
    /\ input = NoCall
    /\ output = NoCall
    /\ HistoryIdle
    /\ LoopIdle
    /\ config \in BgConfigs
    /\ font_line_height = 1
    /\ entry_bounds = <<>>
    /\ current_width = 0
    /\ now = 10
    /\ shown \in ShownSamples \ {<<>>}
    /\ unread_count = Len(shown)
    /\ frame = NoDraw
    /\ last_frame = NoDraw
    /\ drawn = <<>>

\* The first draw of the window.
BgDraw ==
    /\ frame = NoDraw
    /\ DoDraw(now, "none")
    /\ UNCHANGED <<mgr_vars, pure_vars, hist_vars, loop_vars, config,
                   font_line_height, shown, unread_count, last_frame>>

NextBg == BgDraw

SpecBg == InitBg /\ [][NextBg]_vars

(***************************************************************************)
(* C36: the background of a block.                                         *)
(***************************************************************************)
\* The position of the first rule that matches notification n, 0 if none
\* does.
FirstMatching(n) ==
    LET ms == {i \in 1..Len(config.rules) :
                  matches(config.rules[i], n.app_name, n.summary, n.body)}
    IN  IF ms = {} THEN 0 ELSE CHOOSE i \in ms : \A j \in ms : i <= j

\* The background the claim gives notification n.
BackgroundOf(n) ==
    IF FirstMatching(n) # 0 /\ config.rules[FirstMatching(n)].background # None
    THEN config.rules[FirstMatching(n)].background
    ELSE get_app_color(config.app_colors, n.app_name)

\* The notification of the k-th notification block from the top.
BlockNotification(k) == Notification(shown[Len(shown) + 1 - k])

\* C36: the background of a notification block is that of the first
\* matching rule if the rule has one, else the app color, else none; the
\* rules after the first matching one are not consulted; the fill of the
\* whole surface is that of the urgency of the newest notification.
C36_BackgroundOfFirstMatch ==
    Painted =>
        /\ \A k \in 1..Len(shown) :
               /\ frame.entries[2 * k - 1].bg_color
                      = BackgroundOf(BlockNotification(k))
               /\ frame.entries[2 * k - 1].bg_color
                      = resolve_bg_color(
                            [config EXCEPT !.rules =
                                 SubSeq(@, 1, FirstMatching(BlockNotification(k)))],
                            BlockNotification(k))
        /\ frame.fill = Notification(shown[Len(shown)]).urgency

\* The top block has no background although the second rule, which
\* matches it too, has one: the first matching rule has none and there is
\* no app color.  The notification below is of another urgency.
C36_Witness ==
    /\ Painted
    /\ Len(shown) = 2
    /\ Len(config.rules) = 2
    /\ FirstMatching(BlockNotification(1)) = 1
    /\ config.rules[1].background = None
    /\ matches(config.rules[2], BlockNotification(1).app_name,
               BlockNotification(1).summary, BlockNotification(1).body)
    /\ config.rules[2].background # None
    /\ config.app_colors = <<>>
    /\ frame.entries[1].bg_color = None
    /\ frame.fill # BlockNotification(2).urgency

(***************************************************************************)
(* The age label of draw on its own: the clock reading and the timestamp   *)
(* of the notification are the inputs.                                     *)
(***************************************************************************)
\* Notification::timestamp, in seconds.
TimestampSamples == {0, 10, 100, 4000}

\* The clock readings: around the timestamps, and one minute, one hour, two
\* hours, a hundred and a thousand hours after them.
ClockSamples ==
    {0, 9, 10, 69, 70, 159, 160, 3599, 3600, 3609, 3610, 3700, 7199, 7200,
     7210, 360000, 3600000}

AgeCalls ==
    [fn : {"age_display"}, now : ClockSamples, timestamp : TimestampSamples]

InitAge ==
    /\ ManagerInit({0})
    /\ RestIdle
    /\ input \in AgeCalls
    /\ output = NoCall

\* `let age_secs = now.saturating_sub(notification.timestamp);` and the
\* `format!` of the label.
AgeDisplay ==
    /\ output = NoCall
    /\ output' = [fn |-> "age_display",
                  age_secs |-> saturating_sub(input.now, input.timestamp),
                  label |-> age_display(saturating_sub(input.now,
                                                       input.timestamp))]
    /\ UNCHANGED <<mgr_vars, input, rest_vars>>

NextAge == AgeDisplay

SpecAge == InitAge /\ [][NextAge]_vars

(***************************************************************************)
(* C37: the age label.                                                     *)
(***************************************************************************)
AgeReturned == output.fn = "age_display"

\* max(0, now - timestamp)
AgeOf(call) ==
    IF call.now > call.timestamp THEN call.now - call.timestamp ELSE 0

\* The number and the unit of the label of an age.
AgeNumber(age) ==
    IF age < 60 THEN age ELSE IF age < 3600 THEN age \div 60
    ELSE age \div 3600

AgeUnit(age) == IF age < 60 THEN "s" ELSE IF age < 3600 THEN "m" ELSE "h"

\* n in decimal, with spaces before it up to a width of three.
Padded(n) ==
    IF n < 10 THEN <<" ", " ">> \o Digits(n)
    ELSE IF n < 100 THEN <<" ">> \o Digits(n)
    ELSE Digits(n)

\* C37, as stated: the label is the number in decimal followed by the unit.
C37_LabelIsNumberAndUnit ==
    AgeReturned =>
        /\ output.age_secs = AgeOf(input)
        /\ output.label = Append(Digits(AgeNumber(AgeOf(input))),
                                 AgeUnit(AgeOf(input)))

\* C37, amended: the age is max(0, now - timestamp), and the label is the
\* number (the seconds below a minute, the whole minutes below an hour,
\* else the whole hours), right-aligned in three characters, followed by
\* the unit.
C37_LabelIsPaddedNumberAndUnit ==
    AgeReturned =>
        /\ output.age_secs = AgeOf(input)
        /\ output.age_secs >= 0
        /\ output.label = Append(Padded(AgeNumber(AgeOf(input))),
                                 AgeUnit(AgeOf(input)))

\* The label of a notification with a timestamp after the clock reading.
C37_Witness ==
    /\ AgeReturned
    /\ input.now < input.timestamp
    /\ output.age_secs = 0
    /\ output.label = <<" ", " ", "0", "s">>

====
